---- MODULE Spec2Model ----
(***************************************************************************)
(* Budgetly: the budget store (Category, Transaction, Budget,              *)
(* CategoryBudget rows), the budget write routes and the dashboard read    *)
(* routes (budget-overview, daily-budget, daily-budget-history).           *)
(*                                                                         *)
(* Money is a whole number of currency units.  A JavaScript number that    *)
(* comes out of a division is the exact fraction [n, d]; d = 0 encodes the *)
(* non-finite results (n = 0: NaN, n > 0: Infinity, n < 0: -Infinity).     *)
(* A point in time is a calendar date y-m-d plus a time of day t:          *)
(* 0 = 00:00:00.000, 1 = 12:00:00, 2 = 23:59:59.000, 3 = 23:59:59.500.     *)
(* A month string "YYYY-MM" is the record [y, mm] of its two numbers.      *)
(***************************************************************************)
EXTENDS Integers, Sequences, FiniteSets, TLC

VARIABLES categories, transactions, budgets, categoryBudgets, nextBudgetId,
          sequences, now, response, procs

vars == <<categories, transactions, budgets, categoryBudgets, nextBudgetId,
          sequences, now, response, procs>>

store == <<categories, transactions, budgets, categoryBudgets, nextBudgetId, sequences>>

(***************************************************************************)
(* Bounds of the model.                                                    *)
(***************************************************************************)
MaxTx == 2
MaxBudgetId == 3
MaxCategoryBudgets == 2

UserIds == {1, 2}
TotalBudgets == {0, 1000}
BudgetAmounts == {0, 500}
NowDays == {1, 2, 30}
ThisMonth == [y |-> 2025, mm |-> 9]
\* a request field that may be absent: no value or one
Optional(S) == {{}} \cup { {x} : x \in S }

(***************************************************************************)
(* The requests in flight: procs[p] is the position of the p-th concurrent *)
(* request handler and what its open database transaction has done.  The   *)
(* specifications that run one request at a time leave every handler idle. *)
(***************************************************************************)
MaxProcs == 2
MaxRequests == 2

Procs == 1..MaxProcs

NoRequest ==
  [kind |-> "none", userId |-> 0, month |-> ThisMonth, totalBudget |-> {},
   categoryBudgetsField |-> {}]

\* an idle handler that has received `served` requests
IdleProc(served) ==
  [pc |-> "idle", req |-> NoRequest, served |-> served, targets |-> {}, cbTargets |-> {},
   budgetId |-> {}, delB |-> {}, upd |-> {}, delCb |-> {}, insB |-> {}, insCb |-> {}]

NoRequests == [p \in Procs |-> IdleProc(0)]

(***************************************************************************)
(* JavaScript numbers.                                                     *)
(***************************************************************************)
Num(n, d) == [n |-> n, d |-> d]

FromInt(i) == Num(i, 1)

IsNaN(x) == x.d = 0 /\ x.n = 0

IsFinite(x) == x.d # 0

Sign(i) == IF i > 0 THEN 1 ELSE IF i < 0 THEN -1 ELSE 0

\* x / k for an integer k
Div(x, k) ==
  IF x.d = 0 THEN (IF k = 0 THEN Num(0, 0) ELSE Num(x.n * Sign(k), 0))
  ELSE IF k = 0 THEN Num(Sign(x.n), 0)
  ELSE IF k > 0 THEN Num(x.n, x.d * k)
  ELSE Num(-x.n, x.d * (-k))

\* x * p / q for a positive constant p / q (0.8 is 4 / 5)
Times(x, p, q) == IF x.d = 0 THEN x ELSE Num(x.n * p, x.d * q)

Minus(x, y) ==
  IF x.d = 0 \/ y.d = 0
  THEN (IF IsNaN(x) \/ IsNaN(y) \/ (x.d = 0 /\ y.d = 0 /\ Sign(x.n) = Sign(y.n))
        THEN Num(0, 0)
        ELSE IF x.d = 0 THEN Num(Sign(x.n), 0) ELSE Num(-Sign(y.n), 0))
  ELSE Num(x.n * y.d - y.n * x.d, x.d * y.d)

\* x > y as JavaScript compares: false when either side is NaN
Gt(x, y) ==
  /\ ~IsNaN(x) /\ ~IsNaN(y)
  /\ IF x.d # 0 /\ y.d # 0 THEN x.n * y.d > y.n * x.d
     ELSE IF x.d = 0 /\ y.d = 0 THEN x.n > 0 /\ y.n < 0
     ELSE IF x.d = 0 THEN x.n > 0
     ELSE y.n < 0

Eq(x, y) ==
  /\ ~IsNaN(x) /\ ~IsNaN(y)
  /\ IF x.d # 0 /\ y.d # 0 THEN x.n * y.d = y.n * x.d
     ELSE x.d = 0 /\ y.d = 0 /\ Sign(x.n) = Sign(y.n)

Ge(x, y) == Gt(x, y) \/ Eq(x, y)

\* (variant: the value is reported without the clamp)
Unclamped(x) == x

\* Math.max(0, x)
Max0(x) == IF IsNaN(x) THEN x ELSE IF Gt(FromInt(0), x) THEN FromInt(0) ELSE x

\* Math.round(x): the nearest integer, halves towards +Infinity
Round(x) == IF x.d = 0 THEN x ELSE Num((2 * x.n + x.d) \div (2 * x.d), 1)

(***************************************************************************)
(* JavaScript dates (local time).                                          *)
(***************************************************************************)
IsLeap(y) == (y % 4 = 0 /\ y % 100 # 0) \/ y % 400 = 0

\* days of the month m0 (0-based, 0..11) of year y
MonthLength(y, m0) ==
  IF m0 = 1 THEN (IF IsLeap(y) THEN 29 ELSE 28)
  ELSE IF m0 \in {3, 5, 8, 10} THEN 30 ELSE 31

\* new Date(year, monthIndex, 1): the month index may lie outside 0..11
\* (a year 0..99 means 1900 + year)
MonthStartOf(year, monthIndex) ==
  LET full == IF year \in 0..99 THEN 1900 + year ELSE year
  IN  [y |-> full + (monthIndex \div 12), m |-> (monthIndex % 12) + 1, d |-> 1, t |-> 0]

\* new Date(year, monthIndex + 1, 0): day 0 is the last day of the month before
MonthEndOf(year, monthIndex) ==
  LET s == MonthStartOf(year, monthIndex)
  IN  [y |-> s.y, m |-> s.m, d |-> MonthLength(s.y, s.m - 1), t |-> 0]

\* new Date(year, monthIndex, day) and new Date(year, monthIndex, day, 23, 59, 59),
\* for a day of that month
DayStartOf(year, monthIndex, day) ==
  [MonthStartOf(year, monthIndex) EXCEPT !.d = day]

DayEndOf(year, monthIndex, day) ==
  [MonthStartOf(year, monthIndex) EXCEPT !.d = day, !.t = 2]

\* new Date(year, monthIndex + 1, 0).getDate()
DaysInMonth(year, monthIndex) == MonthEndOf(year, monthIndex).d

\* the position of a point in time on the time line
Stamp(p) == ((p.y * 12 + (p.m - 1)) * 32 + p.d) * 4 + p.t

\* `${getFullYear()}-${String(getMonth() + 1).padStart(2, '0')}`
MonthString(date) == [y |-> date.y, mm |-> date.m]

(***************************************************************************)
(* The store: what the Prisma queries of the routes return.                *)
(***************************************************************************)
RECURSIVE SumAmount(_)
SumAmount(S) ==
  IF S = {} THEN 0
  ELSE LET r == CHOOSE r \in S : TRUE IN r.amount + SumAmount(S \ {r})

\* prisma.transaction.findMany({ where: { userId, type: 'expense', date: { gte, lte } } })
FindExpenses(userId, gte, lte) ==
  { tr \in transactions :
      /\ tr.userId = userId
      /\ tr.type = "expense"
      /\ Stamp(tr.date) >= Stamp(gte)
      /\ Stamp(tr.date) <= Stamp(lte) }

\* (variant: the budget of the month is looked up without the user)
FindBudgetOfAnyUser(userId, month) == { b \in budgets : b.month = month }

\* prisma.budget.findUnique({ where: { userId_month: { userId, month } } })
FindBudget(userId, month) ==
  { b \in budgets : b.userId = userId /\ b.month = month }

\* include: { categoryBudgets: ... } of one budget row
CategoryBudgetsOf(b) == { cb \in categoryBudgets : cb.budgetId = b.id }

\* transactions.reduce(... acc[categoryId] += amount ...)[categoryId] || 0
SpendingOf(trs, categoryId) == SumAmount({ tr \in trs : tr.categoryId = categoryId })

(***************************************************************************)
(* GET /dashboard/budget-overview                                          *)
(***************************************************************************)
\* (variant: the thresholds compared with > as the daily routes do)
PercentageStatusAbove(percentage) ==
  IF Gt(percentage, FromInt(100)) THEN "over"
  ELSE IF Gt(percentage, FromInt(80)) THEN "warning"
  ELSE "good"

\* status of a percentage: 'over' from 100, 'warning' from 80
PercentageStatus(percentage) ==
  IF Ge(percentage, FromInt(100)) THEN "over"
  ELSE IF Ge(percentage, FromInt(80)) THEN "warning"
  ELSE "good"

CategoryBudgetStatus(cb, trs) ==
  LET spent == SpendingOf(trs, cb.categoryId)
      remaining == cb.budgetAmount - spent
      percentage == IF cb.budgetAmount > 0
                    THEN Times(Div(FromInt(spent), cb.budgetAmount), 100, 1)
                    ELSE FromInt(0)
  IN  [categoryId |-> cb.categoryId,
       budgetAmount |-> cb.budgetAmount,
       spent |-> spent,
       remaining |-> remaining,
       percentage |-> Round(percentage),
       status |-> PercentageStatus(percentage)]

BudgetOverview(userId) ==
  LET currentMonth == MonthString(now)
      found == FindBudget(userId, currentMonth)
  IN  IF found = {} THEN [hasBudget |-> FALSE]
      ELSE
        LET budget == CHOOSE b \in found : TRUE
            monthStart == MonthStartOf(now.y, now.m - 1)
            monthEnd == MonthEndOf(now.y, now.m - 1)
            trs == FindExpenses(userId, monthStart, monthEnd)
            totalSpent == SumAmount(trs)
            remainingBudget == budget.totalBudget - totalSpent
            budgetUsedPercentage ==
              Times(Div(FromInt(totalSpent), budget.totalBudget), 100, 1)
        IN  [hasBudget |-> TRUE,
             month |-> currentMonth,
             totalBudget |-> budget.totalBudget,
             totalSpent |-> totalSpent,
             remainingBudget |-> remainingBudget,
             budgetUsedPercentage |-> Round(budgetUsedPercentage),
             status |-> PercentageStatus(budgetUsedPercentage),
             categoryBudgets |->
               { CategoryBudgetStatus(cb, trs) : cb \in CategoryBudgetsOf(budget) },
             transactionCount |-> Cardinality(trs)]

(***************************************************************************)
(* GET /dashboard/daily-budget                                             *)
(***************************************************************************)
\* status of a day's spending against a daily limit
CategoryDailyStatus(todaySpent, adjustedDailyLimit) ==
  IF Gt(FromInt(todaySpent), adjustedDailyLimit) THEN "over"
  ELSE IF Gt(FromInt(todaySpent), Times(adjustedDailyLimit, 4, 5)) THEN "warning"
  ELSE "good"

OverallDailyStatus(totalSpentToday, adjustedDailyLimit) ==
  IF Gt(FromInt(totalSpentToday), adjustedDailyLimit) THEN "over"
  ELSE IF Gt(FromInt(totalSpentToday), Times(adjustedDailyLimit, 4, 5)) THEN "warning"
  ELSE "good"

CategoryDailyBudget(cb, monthlyTransactions, todayTransactions, daysInMonth, remainingDaysInMonth) ==
  LET monthlySpent == SpendingOf(monthlyTransactions, cb.categoryId)
      todaySpent == SpendingOf(todayTransactions, cb.categoryId)
      remainingCategoryBudget == cb.budgetAmount - monthlySpent
      originalDailyLimit == Div(FromInt(cb.budgetAmount), daysInMonth)
      adjustedDailyLimit == Div(FromInt(remainingCategoryBudget), remainingDaysInMonth)
  IN  [categoryId |-> cb.categoryId,
       totalBudget |-> cb.budgetAmount,
       monthlySpent |-> monthlySpent,
       remainingBudget |-> remainingCategoryBudget,
       originalDailyLimit |-> originalDailyLimit,
       adjustedDailyLimit |-> Max0(adjustedDailyLimit),
       todaySpent |-> todaySpent,
       todayRemaining |-> Max0(Minus(adjustedDailyLimit, FromInt(todaySpent))),
       status |-> CategoryDailyStatus(todaySpent, adjustedDailyLimit)]

DailyBudget(userId) ==
  LET currentMonth == MonthString(now)
      found == FindBudget(userId, currentMonth)
  IN  IF found = {} THEN [hasBudget |-> FALSE]
      ELSE
        LET budget == CHOOSE b \in found : TRUE
            year == now.y
            month == now.m - 1
            daysInMonth == DaysInMonth(year, month)
            currentDay == now.d
            remainingDaysInMonth == daysInMonth - currentDay + 1
            monthStart == MonthStartOf(year, month)
            monthEnd == MonthEndOf(year, month)
            todayStart == DayStartOf(year, month, currentDay)
            todayEnd == DayEndOf(year, month, currentDay)
            monthlyTransactions == FindExpenses(userId, monthStart, monthEnd)
            todayTransactions == FindExpenses(userId, todayStart, todayEnd)
            totalSpentThisMonth == SumAmount(monthlyTransactions)
            totalSpentToday == SumAmount(todayTransactions)
            remainingBudget == budget.totalBudget - totalSpentThisMonth
            dailyBudgetLimit == Div(FromInt(budget.totalBudget), daysInMonth)
            adjustedDailyLimit == Div(FromInt(remainingBudget), remainingDaysInMonth)
        IN  [hasBudget |-> TRUE,
             currentDay |-> currentDay,
             daysInMonth |-> daysInMonth,
             remainingDaysInMonth |-> remainingDaysInMonth,
             totalBudget |-> budget.totalBudget,
             totalSpentThisMonth |-> totalSpentThisMonth,
             remainingBudget |-> remainingBudget,
             originalDailyLimit |-> dailyBudgetLimit,
             adjustedDailyLimit |-> Max0(adjustedDailyLimit),
             todaySpent |-> totalSpentToday,
             todayRemaining |-> Max0(Minus(adjustedDailyLimit, FromInt(totalSpentToday))),
             overallStatus |-> OverallDailyStatus(totalSpentToday, adjustedDailyLimit),
             categoryDailyBudgets |->
               { CategoryDailyBudget(cb, monthlyTransactions, todayTransactions,
                                     daysInMonth, remainingDaysInMonth) :
                   cb \in CategoryBudgetsOf(budget) },
             todayTransactionCount |-> Cardinality(todayTransactions)]

(***************************************************************************)
(* GET /dashboard/daily-budget-history?month=YYYY-MM                       *)
(***************************************************************************)
\* (variant: the day taken in UTC on a server east of UTC, where local midnight
\* falls on the day before)
TransactionsByUTCDay(monthlyTransactions, day) ==
  { tr \in monthlyTransactions :
      (IF tr.date.t = 0 THEN tr.date.d - 1 ELSE tr.date.d) = day }

\* transactionsByDay[day] || []
TransactionsByDay(monthlyTransactions, day) ==
  { tr \in monthlyTransactions : tr.date.d = day }

\* (variant: the day itself counted as spent so far)
SpentThroughDay(monthlyTransactions, day) ==
  SumAmount({ tr \in monthlyTransactions : tr.date.d <= day })

\* the expenses of the days before `day`
SpentSoFar(monthlyTransactions, day) ==
  SumAmount({ tr \in monthlyTransactions : tr.date.d < day })

\* (variant: the flat average, not re-balanced)
FlatDailyLimit(totalBudget, monthlyTransactions, day, daysInMonth) ==
  Div(FromInt(totalBudget), daysInMonth)

HistoryAdjustedDailyLimit(totalBudget, monthlyTransactions, day, daysInMonth) ==
  LET daysElapsed == day - 1
      spentSoFar == SpentSoFar(monthlyTransactions, day)
      remainingBudget == totalBudget - spentSoFar
      remainingDays == daysInMonth - daysElapsed
  IN  IF remainingDays > 0
      THEN Div(FromInt(remainingBudget), remainingDays)
      ELSE Div(FromInt(totalBudget), daysInMonth)

HistoryCategoryStatus(categorySpentToday, categoryDailyLimit) ==
  IF Gt(FromInt(categorySpentToday), categoryDailyLimit) THEN "over"
  ELSE IF Gt(FromInt(categorySpentToday), Times(categoryDailyLimit, 4, 5)) THEN "warning"
  ELSE "good"

\* (variant: the spending is compared with the clamped limit)
DayStatusAgainstClamped(actualSpent, adjustedDailyLimit) ==
  IF Gt(FromInt(actualSpent), Max0(adjustedDailyLimit)) THEN "over"
  ELSE IF Gt(FromInt(actualSpent), Times(Max0(adjustedDailyLimit), 4, 5)) THEN "warning"
  ELSE "good"

HistoryDayStatus(actualSpent, adjustedDailyLimit) ==
  IF Gt(FromInt(actualSpent), adjustedDailyLimit) THEN "over"
  ELSE IF Gt(FromInt(actualSpent), Times(adjustedDailyLimit, 4, 5)) THEN "warning"
  ELSE "good"

CategoryBreakdown(cb, dayTransactions, daysInMonth) ==
  LET categoryDailyLimit == Div(FromInt(cb.budgetAmount), daysInMonth)
      categorySpentToday == SpendingOf(dayTransactions, cb.categoryId)
      categoryRemaining == Minus(categoryDailyLimit, FromInt(categorySpentToday))
  IN  [categoryId |-> cb.categoryId,
       dailyLimit |-> categoryDailyLimit,
       spent |-> categorySpentToday,
       remaining |-> categoryRemaining,
       status |-> HistoryCategoryStatus(categorySpentToday, categoryDailyLimit)]

DailyCell(budget, cbs, monthlyTransactions, day, daysInMonth, isCurrentMonth, currentDay) ==
  LET dayTransactions == TransactionsByDay(monthlyTransactions, day)
      actualSpent == SumAmount(dayTransactions)
      isToday == isCurrentMonth /\ day = now.d
      isPastDay == day <= currentDay
      adjustedDailyLimit ==
        HistoryAdjustedDailyLimit(budget.totalBudget, monthlyTransactions, day, daysInMonth)
      categoryBreakdown ==
        { CategoryBreakdown(cb, dayTransactions, daysInMonth) : cb \in cbs }
  IN  [day |-> day,
       isToday |-> isToday,
       isPastDay |-> isPastDay,
       dailyLimit |-> adjustedDailyLimit,
       actualSpent |-> actualSpent,
       remaining |-> Minus(adjustedDailyLimit, FromInt(actualSpent)),
       status |-> HistoryDayStatus(actualSpent, adjustedDailyLimit),
       transactionCount |-> Cardinality(dayTransactions),
       categoryBreakdown |->
         { c \in categoryBreakdown : c.spent > 0 \/ Gt(c.dailyLimit, FromInt(0)) }]

\* (variant: today's cell is left out of the count)
PastDaysBeforeToday(dailyData) ==
  Cardinality({ i \in DOMAIN dailyData : dailyData[i].isPastDay /\ ~dailyData[i].isToday })

\* the count of past days, today included, that the average is taken over
PastDays(dailyData) ==
  Cardinality({ i \in DOMAIN dailyData : dailyData[i].isPastDay /\ ~dailyData[i].isToday })
  + (IF \E i \in DOMAIN dailyData : dailyData[i].isToday THEN 1 ELSE 0)

DailyBudgetHistory(userId, targetMonth) ==
  LET year == targetMonth.y
      monthNum == targetMonth.mm - 1
      found == FindBudget(userId, targetMonth)
  IN  IF found = {}
      THEN [error |-> "No budget found for the specified month",
            month |-> targetMonth,
            year |-> year,
            totalBudget |-> 0,
            totalSpent |-> 0,
            averageDailySpent |-> FromInt(0),
            originalDailyLimit |-> FromInt(0),
            dailyData |-> << >>]
      ELSE
        LET budget == CHOOSE b \in found : TRUE
            daysInMonth == DaysInMonth(year, monthNum)
            monthStart == MonthStartOf(year, monthNum)
            monthEnd == MonthEndOf(year, monthNum)
            monthlyTransactions == FindExpenses(userId, monthStart, monthEnd)
            totalSpent == SumAmount(monthlyTransactions)
            originalDailyLimit == Div(FromInt(budget.totalBudget), daysInMonth)
            isCurrentMonth == year = now.y /\ monthNum = now.m - 1
            currentDay == IF isCurrentMonth THEN now.d ELSE daysInMonth
            cbs == CategoryBudgetsOf(budget)
            dailyData ==
              [day \in 1..daysInMonth |->
                 DailyCell(budget, cbs, monthlyTransactions, day, daysInMonth,
                           isCurrentMonth, currentDay)]
            pastDays == PastDays(dailyData)
        IN  [month |-> targetMonth,
             year |-> year,
             totalBudget |-> budget.totalBudget,
             totalSpent |-> totalSpent,
             averageDailySpent |->
               IF pastDays > 0 THEN Div(FromInt(totalSpent), pastDays) ELSE FromInt(0),
             originalDailyLimit |-> originalDailyLimit,
             dailyData |-> dailyData]

(***************************************************************************)
(* The month query of the history route.  A month string of the shape      *)
(* YYYY-MM is held as the pair [y, mm] (the keys of the stored budgets all *)
(* have that shape); the query arrives as text.                            *)
(***************************************************************************)
\* the month queries of the requests
MonthTexts == {"2025-09", "2025-13", "2025-9", "next"}

\* /^\d{4}-\d{2}$/, the shape every stored budget key has
MatchesYYYYMM(text) == text \in {"2025-09", "2025-13"}

\* parseInt(targetMonth.split('-')[0]); no value: NaN
ParseYear(text) == IF text = "next" THEN {} ELSE {2025}

\* parseInt(targetMonth.split('-')[1]); no value: NaN
ParseMonth(text) ==
  IF text \in {"2025-09", "2025-9"} THEN {9} ELSE IF text = "2025-13" THEN {13} ELSE {}

\* the key a string of the shape YYYY-MM is: the year and month it spells
MonthKey(text) ==
  [y |-> CHOOSE y \in ParseYear(text) : TRUE, mm |-> CHOOSE mm \in ParseMonth(text) : TRUE]

\* the history answered to a request: without a month query the current month;
\* a query that is no YYYY-MM string equals the key of no stored budget
DailyBudgetHistoryOf(userId, monthParam) ==
  IF monthParam = {} THEN DailyBudgetHistory(userId, MonthString(now))
  ELSE LET text == CHOOSE t \in monthParam : TRUE
       IN  IF MatchesYYYYMM(text) THEN DailyBudgetHistory(userId, MonthKey(text))
           ELSE [error |-> "No budget found for the specified month",
                 month |-> text,
                 year |-> ParseYear(text),
                 totalBudget |-> 0,
                 totalSpent |-> 0,
                 averageDailySpent |-> FromInt(0),
                 originalDailyLimit |-> FromInt(0),
                 dailyData |-> << >>]

(***************************************************************************)
(* The dashboard routes as steps: each answers one request of one user     *)
(* from the stored rows and the clock, and writes nothing.                 *)
(***************************************************************************)
NoResponse == [route |-> "none"]

GetBudgetOverview(userId) ==
  /\ response' = [route |-> "budget-overview", userId |-> userId, status |-> 200,
                  body |-> BudgetOverview(userId)]
  /\ UNCHANGED <<store, now, procs>>

GetDailyBudget(userId) ==
  /\ response' = [route |-> "daily-budget", userId |-> userId, status |-> 200,
                  body |-> DailyBudget(userId)]
  /\ UNCHANGED <<store, now, procs>>

GetDailyBudgetHistory(userId, monthParam) ==
  /\ response' =
       IF monthParam = {}
       THEN [route |-> "daily-budget-history", userId |-> userId, status |-> 200,
             query |-> monthParam, month |-> MonthString(now),
             body |-> DailyBudgetHistoryOf(userId, monthParam)]
       ELSE IF \A text \in monthParam : MatchesYYYYMM(text)
       THEN [route |-> "daily-budget-history", userId |-> userId, status |-> 200,
             query |-> monthParam, month |-> MonthKey(CHOOSE text \in monthParam : TRUE),
             body |-> DailyBudgetHistoryOf(userId, monthParam)]
       ELSE [route |-> "daily-budget-history", userId |-> userId, status |-> 200,
             query |-> monthParam, body |-> DailyBudgetHistoryOf(userId, monthParam)]
  /\ UNCHANGED <<store, now, procs>>

(***************************************************************************)
(* SpecDash: the dashboard routes over every small store.                  *)
(* Categories 1 and 2 are expense categories of user 1, category 3 is an   *)
(* income category of user 1, category 4 an expense category of user 2.    *)
(* The one stored budget is of user 1, for the month of ThisMonth or for   *)
(* the key "2025-13", which POST /budgets accepts.                         *)
(***************************************************************************)
DashCategories ==
  { [id |-> 1, userId |-> 1, type |-> "expense", name |-> "Hrana i namirnice"],
    [id |-> 2, userId |-> 1, type |-> "expense", name |-> "Transport"],
    [id |-> 3, userId |-> 1, type |-> "income", name |-> "Plata"],
    [id |-> 4, userId |-> 2, type |-> "expense", name |-> "Transport"] }

Date(y, m, d, t) == [y |-> y, m |-> m, d |-> d, t |-> t]

\* the transactions a store of SpecDash is drawn from: rows without their id
TxPool ==
  << [categoryId |-> 1, amount |-> 500, date |-> Date(2025, 9, 1, 1)],
     [categoryId |-> 1, amount |-> 400, date |-> Date(2025, 9, 2, 1)],
     [categoryId |-> 1, amount |-> 400, date |-> Date(2025, 9, 30, 0)],
     [categoryId |-> 1, amount |-> 500, date |-> Date(2025, 9, 30, 0)],
     [categoryId |-> 1, amount |-> 500, date |-> Date(2025, 9, 30, 1)],
     [categoryId |-> 2, amount |-> 500, date |-> Date(2025, 9, 1, 0)],
     [categoryId |-> 2, amount |-> 400, date |-> Date(2025, 9, 2, 3)],
     [categoryId |-> 2, amount |-> 500, date |-> Date(2025, 10, 1, 0)],
     [categoryId |-> 2, amount |-> 400, date |-> Date(2025, 8, 31, 3)],
     [categoryId |-> 3, amount |-> 500, date |-> Date(2025, 9, 1, 1)],
     [categoryId |-> 4, amount |-> 400, date |-> Date(2025, 9, 1, 1)] >>

CategoryById(id) == CHOOSE c \in DashCategories : c.id = id

TxRow(id, p) ==
  [id |-> id, userId |-> CategoryById(p.categoryId).userId,
   type |-> CategoryById(p.categoryId).type,
   categoryId |-> p.categoryId, amount |-> p.amount, date |-> p.date]

\* the stores with n transactions: pool entries in non-decreasing order
TxChoices(n) ==
  { f \in [1..n -> 1..Len(TxPool)] : \A i \in 1..n : \A j \in 1..n : i < j => f[i] <= f[j] }

\* the category budgets of the one drawn budget: none, or an amount, per category
CategoryBudgetChoices == [{1, 2} -> BudgetAmounts \cup {-1}]

\* the clocks of SpecDash: days of the budget's month, the day before it and the
\* day after it
Clock ==
  { [y |-> ThisMonth.y, m |-> ThisMonth.mm, d |-> d] : d \in NowDays }
    \cup { [y |-> 2025, m |-> 8, d |-> 31], [y |-> 2025, m |-> 10, d |-> 1] }

InitDash ==
  /\ categories = DashCategories
  /\ \E n \in 0..MaxTx : \E f \in TxChoices(n) :
       transactions = { TxRow(i, TxPool[f[i]]) : i \in 1..n }
  /\ \/ /\ budgets = {}
        /\ categoryBudgets = {}
        /\ nextBudgetId = 1
     \/ /\ \E total \in TotalBudgets :
             budgets = { [id |-> 1, userId |-> 1, month |-> ThisMonth, totalBudget |-> total] }
        /\ \E g \in CategoryBudgetChoices :
             categoryBudgets =
               { [budgetId |-> 1, categoryId |-> c, budgetAmount |-> g[c]] :
                   c \in { c \in {1, 2} : g[c] >= 0 } }
        /\ nextBudgetId = 2
     \/ /\ budgets = { [id |-> 1, userId |-> 1, month |-> MonthKey("2025-13"),
                         totalBudget |-> 1000] }
        /\ categoryBudgets = {}
        /\ nextBudgetId = 2
  /\ sequences = [Transaction |-> Cardinality(transactions) + 1, Category |-> 5]
  /\ now \in Clock
  /\ response = NoResponse
  /\ procs = NoRequests

\* one request per behaviour: the routes read the store and never write it
NextDash ==
  \/ response = NoResponse /\ \E u \in UserIds : GetBudgetOverview(u)
  \/ response = NoResponse /\ \E u \in UserIds : GetDailyBudget(u)
  \/ response = NoResponse /\ \E u \in UserIds : \E monthParam \in Optional(MonthTexts) :
       GetDailyBudgetHistory(u, monthParam)

SpecDash == InitDash /\ [][NextDash]_vars

(***************************************************************************)
(* The budget routes (POST, PUT, DELETE /budgets) and DELETE /categories.  *)
(* A request's categoryBudgets is a sequence of [categoryId, budgetAmount].*)
(* The rows a Prisma transaction works on are the record                   *)
(* [budgets, categoryBudgets, nextBudgetId].                               *)
(***************************************************************************)
Rows == [budgets |-> budgets, categoryBudgets |-> categoryBudgets,
         nextBudgetId |-> nextBudgetId]

Range(seq) == { seq[i] : i \in DOMAIN seq }

RECURSIVE SumBudgetAmount(_)
\* categoryBudgets.reduce((sum, cb) => sum + cb.budgetAmount, 0)
SumBudgetAmount(seq) ==
  IF seq = << >> THEN 0 ELSE Head(seq).budgetAmount + SumBudgetAmount(Tail(seq))

\* the express-validator chain of POST /budgets
ValidPostBody(totalBudget, cbs) ==
  /\ totalBudget >= 0
  /\ \A i \in DOMAIN cbs : cbs[i].categoryId >= 1 /\ cbs[i].budgetAmount >= 0

\* the express-validator chain of PUT /budgets/:month, whose fields are optional:
\* an optional field is the set of its values, empty when the body has no such field
ValidPutBody(totalBudget, categoryBudgetsField) ==
  /\ \A total \in totalBudget : total >= 0
  /\ \A cbs \in categoryBudgetsField :
       \A i \in DOMAIN cbs : cbs[i].categoryId >= 1 /\ cbs[i].budgetAmount >= 0

\* prisma.category.findMany({ where: { id: { in: categoryIds }, userId } })
UserCategories(userId, cbs) ==
  { c \in categories : c.userId = userId /\ c.id \in { cb.categoryId : cb \in Range(cbs) } }

\* tx.budget.deleteMany({ where: { userId, month } }); the category budgets cascade
DeleteBudgetMany(rows, userId, month) ==
  LET gone == { b \in rows.budgets : b.userId = userId /\ b.month = month }
  IN  [rows EXCEPT
         !.budgets = @ \ gone,
         !.categoryBudgets = { cb \in @ : cb.budgetId \notin { b.id : b \in gone } }]

\* tx.budget.create({ data: { month, totalBudget, userId, categoryBudgets: { create } } })
CreateBudget(rows, userId, month, totalBudget, cbs) ==
  [rows EXCEPT
     !.budgets = @ \cup { [id |-> rows.nextBudgetId, userId |-> userId, month |-> month,
                           totalBudget |-> totalBudget] },
     !.categoryBudgets = @ \cup
        { [budgetId |-> rows.nextBudgetId, categoryId |-> cb.categoryId,
           budgetAmount |-> cb.budgetAmount] : cb \in Range(cbs) },
     !.nextBudgetId = @ + 1]

\* tx.budget.update({ where: { userId_month }, data: updateData })
UpdateBudget(rows, userId, month, totalBudget) ==
  [rows EXCEPT
     !.budgets = { IF b.userId = userId /\ b.month = month /\ totalBudget # {}
                   THEN [b EXCEPT !.totalBudget = CHOOSE total \in totalBudget : TRUE]
                   ELSE b : b \in @ }]

\* (variant: deleteMany without its where clause)
DeleteEveryCategoryBudget(rows, budgetId) == [rows EXCEPT !.categoryBudgets = {}]

\* tx.categoryBudget.deleteMany({ where: { budgetId } })
DeleteCategoryBudgets(rows, budgetId) ==
  [rows EXCEPT !.categoryBudgets = { cb \in @ : cb.budgetId # budgetId }]

\* tx.categoryBudget.createMany({ data: ... })
CreateCategoryBudgets(rows, budgetId, cbs) ==
  [rows EXCEPT
     !.categoryBudgets = @ \cup
        { [budgetId |-> budgetId, categoryId |-> cb.categoryId,
           budgetAmount |-> cb.budgetAmount] : cb \in Range(cbs) }]

\* (variant: the steps run outside a transaction, so a failure keeps what was done)
NoRollback(before, partial) == partial

\* prisma.$transaction(async (tx) => ...) whose callback throws: the rows are
\* those from before the transaction, whatever its steps had done (`partial`)
Rollback(before, partial) == before

\* the rows after the transaction of POST /budgets, failing at step failAt
\* ("none": it commits)
PostBudgetTransaction(rows, userId, month, totalBudget, cbs, failAt) ==
  LET deleted == DeleteBudgetMany(rows, userId, month)
      created == CreateBudget(deleted, userId, month, totalBudget, cbs)
  IN  IF failAt = "deleteMany" THEN Rollback(rows, rows)
      ELSE IF failAt = "create" THEN Rollback(rows, deleted)
      ELSE created

\* the rows after the transaction of PUT /budgets/:month
PutBudgetTransaction(rows, userId, month, totalBudget, categoryBudgetsField, failAt) ==
  LET updated == UpdateBudget(rows, userId, month, totalBudget)
      updatedBudget == CHOOSE b \in updated.budgets : b.userId = userId /\ b.month = month
      cbs == CHOOSE cbs \in categoryBudgetsField : TRUE
      deleted == DeleteCategoryBudgets(updated, updatedBudget.id)
      created == CreateCategoryBudgets(deleted, updatedBudget.id, cbs)
  IN  IF failAt = "update" THEN Rollback(rows, rows)
      ELSE IF categoryBudgetsField = {}
      THEN (IF failAt = "findUnique" THEN Rollback(rows, updated) ELSE updated)
      ELSE IF failAt = "deleteMany" THEN Rollback(rows, updated)
      ELSE IF failAt = "createMany" THEN Rollback(rows, deleted)
      ELSE IF failAt = "findUnique" THEN Rollback(rows, created)
      ELSE created

Respond(route, userId, month, status, message) ==
  response' = [route |-> route, userId |-> userId, month |-> month, status |-> status,
               message |-> message]

RespondCategory(route, userId, id, status, message) ==
  response' = [route |-> route, userId |-> userId, id |-> id, status |-> status,
               message |-> message]

Store(rows) ==
  /\ budgets' = rows.budgets
  /\ categoryBudgets' = rows.categoryBudgets
  /\ nextBudgetId' = rows.nextBudgetId

\* userCategories.length !== categoryIds.length
SomeCategoryNotOfUser(userId, cbs) ==
  Cardinality(UserCategories(userId, cbs)) # Len(cbs)

\* (variant: every amount compared with the total, not their sum)
SomeAmountExceedsTotal(totalBudget, cbs) ==
  \E i \in DOMAIN cbs : cbs[i].budgetAmount > totalBudget

\* totalCategoryBudget > totalBudget
SumExceedsTotal(totalBudget, cbs) == SumBudgetAmount(cbs) > totalBudget

\* the step a transaction may fail at; "none": it commits
PostFailPoints == {"none", "deleteMany", "create"}

PutFailPoints == {"none", "update", "deleteMany", "createMany", "findUnique"}

Result(status, message, rows) == [status |-> status, message |-> message, rows |-> rows]

\* what POST /budgets answers and the rows it leaves, the transaction failing at
\* failAt if it is reached
PostBudgetResult(userId, month, totalBudget, cbs, failAt) ==
  IF ~ValidPostBody(totalBudget, cbs)
  THEN Result(400, "Invalid input", Rows)
  ELSE IF SomeCategoryNotOfUser(userId, cbs)
  THEN Result(400, "Some categories do not exist or do not belong to user", Rows)
  ELSE IF SumExceedsTotal(totalBudget, cbs)
  THEN Result(400, "Sum of category budgets cannot exceed total budget", Rows)
  ELSE LET rows == PostBudgetTransaction(Rows, userId, month, totalBudget, cbs, failAt)
       IN  IF failAt = "none"
           THEN Result(200, "Budget created successfully", rows)
           ELSE Result(500, "Failed to create budget", rows)

\* what PUT /budgets/:month answers and the rows it leaves
PutBudgetResult(userId, month, totalBudget, categoryBudgetsField, failAt) ==
  IF ~ValidPutBody(totalBudget, categoryBudgetsField)
  THEN Result(400, "Invalid input", Rows)
  ELSE IF FindBudget(userId, month) = {}
  THEN Result(404, "Budget not found", Rows)
  ELSE IF \E cbs \in categoryBudgetsField : SomeCategoryNotOfUser(userId, cbs)
  THEN Result(400, "Some categories do not exist or do not belong to user", Rows)
  ELSE LET rows == PutBudgetTransaction(Rows, userId, month, totalBudget,
                                        categoryBudgetsField, failAt)
       IN  IF failAt = "none"
              \/ (categoryBudgetsField = {} /\ failAt \in {"deleteMany", "createMany"})
           THEN Result(200, "Budget updated successfully", rows)
           ELSE Result(500, "Failed to update budget", rows)

\* the request runs, the transaction failing at any of its steps if it is reached
PostBudget(userId, month, totalBudget, cbs) ==
  /\ nextBudgetId <= MaxBudgetId
  /\ \E rejected \in {PostBudgetResult(userId, month, totalBudget, cbs, "none")} :
       IF rejected.status # 200
       THEN /\ Store(rejected.rows)
            /\ Respond("POST /budgets", userId, month, rejected.status, rejected.message)
       ELSE \E failAt \in PostFailPoints :
              \E result \in {PostBudgetResult(userId, month, totalBudget, cbs, failAt)} :
                /\ Store(result.rows)
                /\ Respond("POST /budgets", userId, month, result.status, result.message)
  /\ UNCHANGED <<categories, transactions, sequences, now, procs>>

PutBudget(userId, month, totalBudget, categoryBudgetsField) ==
  /\ \E rejected \in {PutBudgetResult(userId, month, totalBudget, categoryBudgetsField,
                                       "none")} :
       IF rejected.status # 200
       THEN /\ Store(rejected.rows)
            /\ Respond("PUT /budgets/:month", userId, month, rejected.status,
                       rejected.message)
       ELSE \E failAt \in PutFailPoints :
              \E result \in {PutBudgetResult(userId, month, totalBudget,
                                              categoryBudgetsField, failAt)} :
                /\ Store(result.rows)
                /\ Respond("PUT /budgets/:month", userId, month, result.status,
                           result.message)
  /\ UNCHANGED <<categories, transactions, sequences, now, procs>>

DeleteBudget(userId, month) ==
  /\ UNCHANGED <<categories, transactions, sequences, now, procs>>
  /\ Store(DeleteBudgetMany(Rows, userId, month))
  /\ IF FindBudget(userId, month) = {}
     THEN Respond("DELETE /budgets/:month", userId, month, 404, "Budget not found")
     ELSE Respond("DELETE /budgets/:month", userId, month, 200, "Budget deleted successfully")

\* DELETE /categories/:id; the category budgets of the category cascade
DeleteCategory(userId, id) ==
  LET category == { c \in categories : c.id = id /\ c.userId = userId }
      count == Cardinality({ tr \in transactions : tr.categoryId = id })
  IN  /\ UNCHANGED <<transactions, budgets, nextBudgetId, sequences, now, procs>>
      /\ IF category = {}
         THEN /\ RespondCategory("DELETE /categories/:id", userId, id, 404,
                                 "Category not found")
              /\ UNCHANGED <<categories, categoryBudgets>>
         ELSE IF count > 0
         THEN /\ RespondCategory("DELETE /categories/:id", userId, id, 400,
                                 "Cannot delete category with existing transactions")
              /\ UNCHANGED <<categories, categoryBudgets>>
         ELSE /\ categories' = { c \in categories : c.id # id }
              /\ categoryBudgets' = { cb \in categoryBudgets : cb.categoryId # id }
              /\ RespondCategory("DELETE /categories/:id", userId, id, 200,
                                 "Category deleted successfully")

(***************************************************************************)
(* Spec: the budget routes and category deletion from an empty budget      *)
(* table.  Categories 1 and 2 belong to user 1 (category 2 has a           *)
(* transaction), category 3 to user 2.                                     *)
(***************************************************************************)
WriteCategories ==
  { [id |-> 1, userId |-> 1, type |-> "expense", name |-> "Hrana i namirnice"],
    [id |-> 2, userId |-> 1, type |-> "expense", name |-> "Transport"],
    [id |-> 3, userId |-> 2, type |-> "expense", name |-> "Transport"] }

ReqTotals == {-1, 0, 1, 2}
ReqAmounts == {1, 2}
ReqCategoryIds == {1, 2, 3}
ReqMonths == {ThisMonth}
BudgetUsers == {1}

ReqCategoryBudget == [categoryId : ReqCategoryIds, budgetAmount : ReqAmounts]

\* the lists a request may carry, duplicates included; the routes read a list as
\* a whole (its ids, its length, its sum), so one order of its entries is drawn
ReqCategoryBudgets ==
  UNION { { cbs \in [1..n -> ReqCategoryBudget] :
              \A i \in 1..n : \A j \in 1..n :
                i < j => \/ cbs[i].categoryId < cbs[j].categoryId
                         \/ /\ cbs[i].categoryId = cbs[j].categoryId
                            /\ cbs[i].budgetAmount <= cbs[j].budgetAmount } :
          n \in 0..MaxCategoryBudgets }

Init ==
  /\ categories = WriteCategories
  /\ transactions =
       { [id |-> 1, userId |-> 1, type |-> "expense", categoryId |-> 2, amount |-> 1,
          date |-> [y |-> 2025, m |-> 9, d |-> 1, t |-> 1]] }
  /\ budgets = {}
  /\ categoryBudgets = {}
  /\ nextBudgetId = 1
  /\ sequences = [Transaction |-> 2, Category |-> 4]
  /\ now = [y |-> 2025, m |-> 9, d |-> 2]
  /\ response = NoResponse
  /\ procs = NoRequests

Next ==
  \/ \E u \in BudgetUsers : \E month \in ReqMonths : \E total \in ReqTotals :
       \E cbs \in ReqCategoryBudgets : PostBudget(u, month, total, cbs)
  \/ \E u \in BudgetUsers : \E month \in ReqMonths : \E total \in Optional(ReqTotals) :
       \E cbs \in Optional(ReqCategoryBudgets) : PutBudget(u, month, total, cbs)
  \/ \E u \in BudgetUsers : \E month \in ReqMonths : DeleteBudget(u, month)
  \/ \E u \in UserIds : \E id \in ReqCategoryIds : DeleteCategory(u, id)

Spec == Init /\ [][Next]_vars

(***************************************************************************)
(* SpecPostMonth: POST /budgets with the month as the text of the body,    *)
(* and the history of the stored months.                                   *)
(***************************************************************************)
PostMonthTexts == {"2025-09", "2025-13", "2025-9"}

\* POST /budgets: body('month').isString().matches(/^\d{4}-\d{2}$/) is one of the
\* validators behind 400 'Invalid input'; the text is stored as the key
PostBudgetOfText(userId, text, totalBudget, cbs) ==
  IF MatchesYYYYMM(text)
  THEN PostBudget(userId, MonthKey(text), totalBudget, cbs)
  ELSE /\ nextBudgetId <= MaxBudgetId
       /\ Respond("POST /budgets", userId, MonthKey(text), 400, "Invalid input")
       /\ UNCHANGED <<store, now, procs>>

NextPostMonth ==
  \/ \E u \in BudgetUsers : \E text \in PostMonthTexts : \E total \in {0, 1000} :
       \E cbs \in { << >>, << [categoryId |-> 1, budgetAmount |-> 500] >> } :
         PostBudgetOfText(u, text, total, cbs)
  \/ \E u \in BudgetUsers : \E text \in Optional(PostMonthTexts) :
       GetDailyBudgetHistory(u, text)

SpecPostMonth == Init /\ [][NextPostMonth]_vars

(***************************************************************************)
(* SpecPutOnce: one PUT /budgets/:month over every small budget table.     *)
(* Budget 1 is of user 1 for ThisMonth, budget 2 of user 1 for OtherMonth, *)
(* budget 3 of user 2 for ThisMonth; each is stored or not.                *)
(***************************************************************************)
OtherMonth == [y |-> 2025, mm |-> 10]

PutOnceMonths == {ThisMonth, OtherMonth}

\* the category budgets budget 1 may have: categoryId -> budgetAmount
PutOnceCategoryBudgets == { << >>, <<1>>, <<1, 1>> }

InitPutOnce ==
  /\ categories = WriteCategories
  /\ transactions =
       { [id |-> 1, userId |-> 1, type |-> "expense", categoryId |-> 2, amount |-> 1,
          date |-> [y |-> 2025, m |-> 9, d |-> 1, t |-> 1]] }
  /\ \E first \in Optional({1, 2} \X PutOnceCategoryBudgets) :
       \E second \in BOOLEAN : \E third \in BOOLEAN :
         /\ budgets =
              { [id |-> 1, userId |-> 1, month |-> ThisMonth, totalBudget |-> f[1]] :
                  f \in first }
              \cup (IF second
                    THEN { [id |-> 2, userId |-> 1, month |-> OtherMonth, totalBudget |-> 2] }
                    ELSE {})
              \cup (IF third
                    THEN { [id |-> 3, userId |-> 2, month |-> ThisMonth, totalBudget |-> 2] }
                    ELSE {})
         /\ categoryBudgets =
              UNION { { [budgetId |-> 1, categoryId |-> c, budgetAmount |-> f[2][c]] :
                          c \in DOMAIN f[2] } : f \in first }
              \cup (IF second
                    THEN { [budgetId |-> 2, categoryId |-> 2, budgetAmount |-> 2] }
                    ELSE {})
              \cup (IF third
                    THEN { [budgetId |-> 3, categoryId |-> 3, budgetAmount |-> 1] }
                    ELSE {})
  /\ nextBudgetId = 4
  /\ sequences = [Transaction |-> 2, Category |-> 4]
  /\ now = [y |-> 2025, m |-> 9, d |-> 2]
  /\ response = NoResponse
  /\ procs = NoRequests

NextPutOnce ==
  /\ response = NoResponse
  /\ \E u \in UserIds : \E month \in PutOnceMonths : \E total \in Optional(ReqTotals) :
       \E cbs \in Optional(ReqCategoryBudgets) : PutBudget(u, month, total, cbs)

SpecPutOnce == InitPutOnce /\ [][NextPutOnce]_vars

(***************************************************************************)
(* The transaction routes and the category routes.                         *)
(***************************************************************************)
MaxCategoryId == 3

\* String.prototype.trim, on the names the requests carry
Trim(name) ==
  IF name = " Transport " THEN "Transport" ELSE IF name = "  " THEN "" ELSE name

\* validateTransaction (the dates drawn are ISO 8601 dates)
ValidTransactionBody(amount, type, categoryId) ==
  /\ amount > 0
  /\ type \in {"income", "expense"}
  /\ categoryId >= 1

\* validateCategory (the colors and icons drawn are valid)
ValidCategoryBody(name, type) ==
  /\ Trim(name) # ""
  /\ type \in {"income", "expense"}

\* prisma.category.findFirst({ where: { id, userId } })
OwnedCategory(userId, id) == { c \in categories : c.id = id /\ c.userId = userId }

\* (variant: the transaction is looked up by its id alone)
TransactionOfAnyUser(userId, id) == { tr \in transactions : tr.id = id }

\* prisma.transaction.findFirst({ where: { id, userId } })
OwnedTransaction(userId, id) == { tr \in transactions : tr.id = id /\ tr.userId = userId }

\* (variant: the type of the category is not compared)
TypeNeverChecked(category, type) == FALSE

\* category.type !== type
TypeMismatch(category, type) == category.type # type

\* what POST /transactions answers and the transactions it leaves
PostTransactionResult(userId, amount, date, type, categoryId) ==
  IF ~ValidTransactionBody(amount, type, categoryId)
  THEN Result(400, "Validation failed", transactions)
  ELSE IF OwnedCategory(userId, categoryId) = {}
  THEN Result(404, "Category not found or does not belong to user", transactions)
  ELSE IF TypeMismatch(CHOOSE c \in OwnedCategory(userId, categoryId) : TRUE, type)
  THEN Result(400, "Category type does not match transaction type", transactions)
  ELSE Result(201, "created",
              transactions \cup
                { [id |-> sequences.Transaction, userId |-> userId, type |-> type,
                   categoryId |-> categoryId, amount |-> amount, date |-> date] })

\* what PUT /transactions/:id answers and the transactions it leaves
PutTransactionResult(userId, id, amount, date, type, categoryId) ==
  IF ~ValidTransactionBody(amount, type, categoryId)
  THEN Result(400, "Validation failed", transactions)
  ELSE IF OwnedTransaction(userId, id) = {}
  THEN Result(404, "Transaction not found", transactions)
  ELSE IF OwnedCategory(userId, categoryId) = {}
  THEN Result(404, "Category not found or does not belong to user", transactions)
  ELSE IF TypeMismatch(CHOOSE c \in OwnedCategory(userId, categoryId) : TRUE, type)
  THEN Result(400, "Category type does not match transaction type", transactions)
  ELSE Result(200, "updated",
              { IF tr.id = id
                THEN [tr EXCEPT !.amount = amount, !.date = date, !.type = type,
                                !.categoryId = categoryId]
                ELSE tr : tr \in transactions })

RespondTransaction(route, userId, id, status, message) ==
  response' = [route |-> route, userId |-> userId, id |-> id, status |-> status,
               message |-> message]

PostTransaction(userId, amount, date, type, categoryId) ==
  /\ sequences.Transaction <= MaxTx
  /\ \E result \in {PostTransactionResult(userId, amount, date, type, categoryId)} :
       /\ transactions' = result.rows
       /\ sequences' = IF result.status = 201
                       THEN [sequences EXCEPT !.Transaction = @ + 1]
                       ELSE sequences
       /\ RespondTransaction("POST /transactions", userId, 0, result.status, result.message)
  /\ UNCHANGED <<categories, budgets, categoryBudgets, nextBudgetId, now, procs>>

PutTransaction(userId, id, amount, date, type, categoryId) ==
  /\ \E result \in {PutTransactionResult(userId, id, amount, date, type, categoryId)} :
       /\ transactions' = result.rows
       /\ RespondTransaction("PUT /transactions/:id", userId, id, result.status,
                             result.message)
  /\ UNCHANGED <<categories, budgets, categoryBudgets, nextBudgetId, sequences, now, procs>>

DeleteTransaction(userId, id) ==
  /\ IF OwnedTransaction(userId, id) = {}
     THEN /\ RespondTransaction("DELETE /transactions/:id", userId, id, 404,
                                "Transaction not found")
          /\ UNCHANGED transactions
     ELSE /\ transactions' = { tr \in transactions : tr.id # id }
          /\ RespondTransaction("DELETE /transactions/:id", userId, id, 200,
                                "Transaction deleted successfully")
  /\ UNCHANGED <<categories, budgets, categoryBudgets, nextBudgetId, sequences, now, procs>>

\* POST /categories
PostCategory(userId, name, type) ==
  /\ sequences.Category <= MaxCategoryId
  /\ IF ~ValidCategoryBody(name, type)
     THEN /\ RespondCategory("POST /categories", userId, 0, 400, "Validation failed")
          /\ UNCHANGED <<categories, sequences>>
     ELSE IF \E c \in categories : c.userId = userId /\ c.name = Trim(name)
     THEN /\ RespondCategory("POST /categories", userId, 0, 400,
                             "Category with this name already exists")
          /\ UNCHANGED <<categories, sequences>>
     ELSE /\ categories' = categories \cup
               { [id |-> sequences.Category, userId |-> userId, type |-> type,
                  name |-> Trim(name)] }
          /\ sequences' = [sequences EXCEPT !.Category = @ + 1]
          /\ RespondCategory("POST /categories", userId, 0, 201, "created")
  /\ UNCHANGED <<transactions, budgets, categoryBudgets, nextBudgetId, now, procs>>

\* PUT /categories/:id
PutCategory(userId, id, name, type) ==
  /\ IF ~ValidCategoryBody(name, type)
     THEN /\ RespondCategory("PUT /categories/:id", userId, id, 400, "Validation failed")
          /\ UNCHANGED categories
     ELSE IF OwnedCategory(userId, id) = {}
     THEN /\ RespondCategory("PUT /categories/:id", userId, id, 404, "Category not found")
          /\ UNCHANGED categories
     ELSE IF \E c \in categories : c.userId = userId /\ c.name = Trim(name) /\ c.id # id
     THEN /\ RespondCategory("PUT /categories/:id", userId, id, 400,
                             "Category with this name already exists")
          /\ UNCHANGED categories
     ELSE /\ categories' = { IF c.id = id THEN [c EXCEPT !.name = Trim(name), !.type = type]
                             ELSE c : c \in categories }
          /\ RespondCategory("PUT /categories/:id", userId, id, 200, "updated")
  /\ UNCHANGED <<transactions, budgets, categoryBudgets, nextBudgetId, sequences, now, procs>>

(***************************************************************************)
(* SpecTx: the transaction and category routes, one request at a time.     *)
(* Category 1 (expense) and category 2 (income) belong to user 1.          *)
(***************************************************************************)
TxCategories ==
  { [id |-> 1, userId |-> 1, type |-> "expense", name |-> "Hrana i namirnice"],
    [id |-> 2, userId |-> 1, type |-> "income", name |-> "Plata"] }

ReqTxAmounts == {0, 5}
ReqTxDates == { Date(2025, 9, 1, 1) }
ReqTypes == {"income", "expense", "transfer"}
ReqNames == {" Transport ", "  "}
ReqTxCategoryIds == 1..MaxCategoryId
ReqTxIds == 1..MaxTx

InitTx ==
  /\ categories = TxCategories
  /\ transactions = {}
  /\ budgets = {}
  /\ categoryBudgets = {}
  /\ nextBudgetId = 1
  /\ sequences = [Transaction |-> 1, Category |-> 3]
  /\ now = [y |-> 2025, m |-> 9, d |-> 2]
  /\ response = NoResponse
  /\ procs = NoRequests

NextTx ==
  \/ \E u \in UserIds : \E amount \in ReqTxAmounts : \E date \in ReqTxDates :
       \E type \in ReqTypes : \E c \in ReqTxCategoryIds :
         PostTransaction(u, amount, date, type, c)
  \/ \E u \in UserIds : \E id \in ReqTxIds : \E amount \in ReqTxAmounts :
       \E date \in ReqTxDates : \E type \in ReqTypes : \E c \in ReqTxCategoryIds :
         PutTransaction(u, id, amount, date, type, c)
  \/ \E u \in UserIds : \E id \in ReqTxIds : DeleteTransaction(u, id)
  \/ \E u \in UserIds : \E name \in ReqNames : \E type \in ReqTypes :
       PostCategory(u, name, type)
  \/ \E u \in UserIds : \E id \in ReqTxCategoryIds : \E name \in ReqNames :
       \E type \in ReqTypes : PutCategory(u, id, name, type)
  \/ \E u \in UserIds : \E id \in ReqTxCategoryIds : DeleteCategory(u, id)

SpecTx == InitTx /\ [][NextTx]_vars

(***************************************************************************)
(* SpecTxOnce: one transaction request over every small store.  The        *)
(* categories are those of SpecTx, as seeded or after PUT /categories/1    *)
(* made category 1 an income category, with category 3 created by user 2;  *)
(* the transactions are rows that POST /transactions stored.               *)
(***************************************************************************)
TxOnceCategories ==
  { TxCategories \cup { [id |-> 3, userId |-> 2, type |-> "expense", name |-> "Transport"] },
    { [id |-> 1, userId |-> 1, type |-> "income", name |-> "Transport"],
      [id |-> 2, userId |-> 1, type |-> "income", name |-> "Plata"],
      [id |-> 3, userId |-> 2, type |-> "expense", name |-> "Transport"] } }

\* the rows the stored transactions are drawn from, without their id
TxOncePool ==
  << [userId |-> 1, type |-> "expense", categoryId |-> 1],
     [userId |-> 1, type |-> "income", categoryId |-> 2],
     [userId |-> 2, type |-> "expense", categoryId |-> 3] >>

TxOnceChoices(n) == [1..n -> 1..Len(TxOncePool)]

InitTxOnce ==
  /\ categories \in TxOnceCategories
  /\ \E n \in 0..MaxTx : \E f \in TxOnceChoices(n) :
       /\ transactions =
            { [id |-> i, userId |-> TxOncePool[f[i]].userId, type |-> TxOncePool[f[i]].type,
               categoryId |-> TxOncePool[f[i]].categoryId, amount |-> 5,
               date |-> Date(2025, 9, 1, 1)] : i \in 1..n }
       /\ sequences = [Transaction |-> n + 1, Category |-> 4]
  /\ budgets = {}
  /\ categoryBudgets = {}
  /\ nextBudgetId = 1
  /\ now = [y |-> 2025, m |-> 9, d |-> 2]
  /\ response = NoResponse
  /\ procs = NoRequests

NextTxOnce ==
  \/ response = NoResponse /\ \E u \in UserIds : \E amount \in ReqTxAmounts :
       \E date \in ReqTxDates : \E type \in ReqTypes : \E c \in ReqTxCategoryIds :
         PostTransaction(u, amount, date, type, c)
  \/ response = NoResponse /\ \E u \in UserIds : \E id \in ReqTxIds :
       \E amount \in ReqTxAmounts : \E date \in ReqTxDates : \E type \in ReqTypes :
         \E c \in ReqTxCategoryIds : PutTransaction(u, id, amount, date, type, c)
  \/ response = NoResponse /\ \E u \in UserIds : \E id \in ReqTxIds : DeleteTransaction(u, id)

SpecTxOnce == InitTxOnce /\ [][NextTxOnce]_vars

(***************************************************************************)
(* SpecIsoOnce: one write request of either user over every small store in *)
(* which both users may have a category, transactions and a budget.        *)
(* Category 1 and budget 1 are of user 1, category 2 and budget 2 of       *)
(* user 2.                                                                 *)
(***************************************************************************)
IsoCategories ==
  { [id |-> 1, userId |-> 1, type |-> "expense", name |-> "Hrana i namirnice"],
    [id |-> 2, userId |-> 2, type |-> "expense", name |-> "Transport"] }

\* the rows the stored transactions are drawn from, without their id
IsoTxPool ==
  << [userId |-> 1, categoryId |-> 1, amount |-> 500, date |-> Date(2025, 9, 1, 1)],
     [userId |-> 2, categoryId |-> 2, amount |-> 400, date |-> Date(2025, 9, 1, 1)],
     [userId |-> 2, categoryId |-> 2, amount |-> 500, date |-> Date(2025, 9, 2, 0)] >>

IsoTxChoices(n) ==
  { f \in [1..n -> 1..Len(IsoTxPool)] : \A i \in 1..n : \A j \in 1..n : i < j => f[i] <= f[j] }

\* the budget a user has: none, without a category budget, or with one on the
\* user's category
IsoBudgetChoices == {"none", "plain", "category"}

IsoReqCategoryBudgets ==
  { << >> } \cup { << [categoryId |-> c, budgetAmount |-> 500] >> : c \in {1, 2} }

InitIsoOnce ==
  /\ categories = IsoCategories
  /\ \E n \in 0..MaxTx : \E f \in IsoTxChoices(n) :
       /\ transactions =
            { [id |-> i, userId |-> IsoTxPool[f[i]].userId, type |-> "expense",
               categoryId |-> IsoTxPool[f[i]].categoryId, amount |-> IsoTxPool[f[i]].amount,
               date |-> IsoTxPool[f[i]].date] : i \in 1..n }
       /\ sequences = [Transaction |-> n + 1, Category |-> 3]
  /\ \E g \in [UserIds -> IsoBudgetChoices] :
       /\ budgets =
            { [id |-> u, userId |-> u, month |-> ThisMonth, totalBudget |-> 1000] :
                u \in { u \in UserIds : g[u] # "none" } }
       /\ categoryBudgets =
            { [budgetId |-> u, categoryId |-> u, budgetAmount |-> 500] :
                u \in { u \in UserIds : g[u] = "category" } }
  /\ nextBudgetId = 3
  /\ now = [y |-> 2025, m |-> 9, d |-> 2]
  /\ response = NoResponse
  /\ procs = NoRequests

NextIsoOnce ==
  \/ response = NoResponse /\ \E u \in UserIds : \E c \in {1, 2} :
       PostTransaction(u, 400, Date(2025, 9, 2, 1), "expense", c)
  \/ response = NoResponse /\ \E u \in UserIds : \E id \in ReqTxIds :
       \E amount \in {0, 100} : \E c \in {1, 2} :
         PutTransaction(u, id, amount, Date(2025, 9, 2, 1), "expense", c)
  \/ response = NoResponse /\ \E u \in UserIds : \E id \in ReqTxIds : DeleteTransaction(u, id)
  \/ response = NoResponse /\ \E u \in UserIds : \E name \in ReqNames :
       PostCategory(u, name, "expense")
  \/ response = NoResponse /\ \E u \in UserIds : \E id \in {1, 2} : \E name \in ReqNames :
       PutCategory(u, id, name, "income")
  \/ response = NoResponse /\ \E u \in UserIds : \E id \in {1, 2} : DeleteCategory(u, id)
  \/ response = NoResponse /\ \E u \in UserIds : \E cbs \in IsoReqCategoryBudgets :
       PostBudget(u, ThisMonth, 2000, cbs)
  \/ response = NoResponse /\ \E u \in UserIds : \E total \in Optional({2000}) :
       \E cbs \in Optional(IsoReqCategoryBudgets) : PutBudget(u, ThisMonth, total, cbs)
  \/ response = NoResponse /\ \E u \in UserIds : DeleteBudget(u, ThisMonth)

SpecIsoOnce == InitIsoOnce /\ [][NextIsoOnce]_vars

(***************************************************************************)
(* SpecOverview: GET /dashboard/budget-overview over stores whose expenses *)
(* are near 80 and 100 percent of the budget.  User 1 has a budget of 1000 *)
(* for ThisMonth with 500 for category 1.                                  *)
(***************************************************************************)
OverviewAmounts == {398, 400, 498, 500, 796, 995}

\* the rows the stored expenses are drawn from, without their id
OverviewTxPool == [amount : OverviewAmounts, categoryId : {1, 2}]

InitOverview ==
  /\ categories = DashCategories
  /\ \E n \in 0..MaxTx : \E f \in [1..n -> OverviewTxPool] :
       /\ \A i \in 1..n : \A j \in 1..n :
            i < j => \/ f[i].amount < f[j].amount
                     \/ f[i].amount = f[j].amount /\ f[i].categoryId <= f[j].categoryId
       /\ transactions =
            { [id |-> i, userId |-> 1, type |-> "expense", categoryId |-> f[i].categoryId,
               amount |-> f[i].amount, date |-> Date(2025, 9, 1, 1)] : i \in 1..n }
       /\ sequences = [Transaction |-> n + 1, Category |-> 5]
  /\ budgets = { [id |-> 1, userId |-> 1, month |-> ThisMonth, totalBudget |-> 1000] }
  /\ categoryBudgets = { [budgetId |-> 1, categoryId |-> 1, budgetAmount |-> 500] }
  /\ nextBudgetId = 2
  /\ now = [y |-> 2025, m |-> 9, d |-> 2]
  /\ response = NoResponse
  /\ procs = NoRequests

NextOverview == GetBudgetOverview(1)

SpecOverview == InitOverview /\ [][NextOverview]_vars

(***************************************************************************)
(* SpecConc: the budget write routes as concurrent handlers.  A handler    *)
(* answers a rejected request at once; otherwise it runs the statements of *)
(* its transaction one at a time, other handlers' statements in between.   *)
(* The database is PostgreSQL at READ COMMITTED: a statement sees the      *)
(* committed rows and its own transaction's writes, a write to a row that  *)
(* another open transaction has written waits for that transaction to end, *)
(* and the unique indexes and foreign keys of the migration hold.          *)
(* In procs[p]: delB, delCb are the rows p's transaction has deleted, upd  *)
(* the Budget row it has updated, insB, insCb the rows it has inserted.    *)
(***************************************************************************)
Others(p) == Procs \ {p}

SameKey(b, userId, month) == b.userId = userId /\ b.month = month

\* the Budget rows handler p's transaction sees
VisibleBudgets(p) ==
  { IF \E u \in procs[p].upd : u.id = b.id
    THEN [b EXCEPT !.totalBudget = (CHOOSE u \in procs[p].upd : u.id = b.id).totalBudget]
    ELSE b : b \in { b \in budgets : b.id \notin procs[p].delB } } \cup procs[p].insB

\* the CategoryBudget rows handler p's transaction sees
VisibleCategoryBudgets(p) == (categoryBudgets \ procs[p].delCb) \cup procs[p].insCb

\* another open transaction has deleted or updated the Budget row
BudgetLockedByOther(p, id) ==
  \E q \in Others(p) : id \in procs[q].delB \/ (\E u \in procs[q].upd : u.id = id)

\* another open transaction has inserted a CategoryBudget row that references the
\* Budget row (CategoryBudget_budgetId_fkey), which keeps the row from being deleted
BudgetReferencedByOther(p, id) ==
  \E q \in Others(p) : \E cb \in procs[q].insCb : cb.budgetId = id

\* another open transaction has deleted the CategoryBudget row
CategoryBudgetLockedByOther(p, cb) == \E q \in Others(p) : cb \in procs[q].delCb

\* the handler has answered: it is idle again and its transaction is gone
Finish(p, route, status, message) ==
  /\ procs' = [procs EXCEPT ![p] = IdleProc(procs[p].served)]
  /\ Respond(route, procs[p].req.userId, procs[p].req.month, status, message)

RouteOf(req) ==
  IF req.kind = "POST" THEN "POST /budgets"
  ELSE IF req.kind = "PUT" THEN "PUT /budgets/:month"
  ELSE "DELETE /budgets/:month"

\* a statement throws: the transaction is rolled back, the catch block answers 500
AbortTx(p) ==
  /\ Finish(p, RouteOf(procs[p].req), 500,
            IF procs[p].req.kind = "POST" THEN "Failed to create budget"
            ELSE "Failed to update budget")
  /\ UNCHANGED <<store, now>>

\* the committed rows once handler p's transaction commits
CommittedBudgets(p) == VisibleBudgets(p)

CommittedCategoryBudgets(p) == VisibleCategoryBudgets(p)

\* the validation part of a handler, before its transaction
Preflight(req) ==
  IF req.kind = "POST"
  THEN PostBudgetResult(req.userId, req.month, CHOOSE t \in req.totalBudget : TRUE,
                        CHOOSE cbs \in req.categoryBudgetsField : TRUE, "none")
  ELSE IF req.kind = "PUT"
  THEN PutBudgetResult(req.userId, req.month, req.totalBudget, req.categoryBudgetsField,
                       "none")
  ELSE Result(200, "", Rows)

\* a request arrives at an idle handler
Issue(p, req) ==
  /\ procs[p].pc = "idle"
  /\ procs[p].served < MaxRequests
  /\ \E preflight \in {Preflight(req)} :
       IF preflight.status # 200
       THEN /\ procs' = [procs EXCEPT ![p] = IdleProc(procs[p].served + 1)]
            /\ Respond(RouteOf(req), req.userId, req.month, preflight.status,
                       preflight.message)
       ELSE /\ procs' = [procs EXCEPT ![p] =
                           [IdleProc(procs[p].served + 1) EXCEPT
                              !.req = req,
                              !.pc = IF req.kind = "PUT" THEN "update" ELSE "deleteMany"]]
            /\ UNCHANGED response
  /\ UNCHANGED <<store, now>>

\* budget.deleteMany({ where: { userId, month } }) starts: the rows it will delete
DeleteManyStart(p) ==
  /\ procs[p].pc = "deleteMany"
  /\ procs' = [procs EXCEPT
       ![p].targets = { b.id : b \in { b \in VisibleBudgets(p) :
                                         SameKey(b, procs[p].req.userId, procs[p].req.month) } },
       ![p].pc = "deleteManyApply"]
  /\ UNCHANGED <<store, now, response>>

\* ... and deletes them, their category budgets with them, once no other open
\* transaction holds one of them; DELETE /budgets/:month commits with it
DeleteManyApply(p) ==
  /\ procs[p].pc = "deleteManyApply"
  /\ \A id \in procs[p].targets :
       ~BudgetLockedByOther(p, id) /\ ~BudgetReferencedByOther(p, id)
  /\ LET gone == { id \in procs[p].targets : \E b \in budgets : b.id = id }
         cascade == { cb \in categoryBudgets : cb.budgetId \in gone }
     IN  /\ \A cb \in cascade : ~CategoryBudgetLockedByOther(p, cb)
         /\ IF procs[p].req.kind = "DELETE"
            THEN /\ budgets' = { b \in budgets : b.id \notin gone }
                 /\ categoryBudgets' = categoryBudgets \ cascade
                 /\ IF gone = {}
                    THEN Finish(p, "DELETE /budgets/:month", 404, "Budget not found")
                    ELSE Finish(p, "DELETE /budgets/:month", 200,
                                "Budget deleted successfully")
                 /\ UNCHANGED <<categories, transactions, nextBudgetId, sequences, now>>
            ELSE /\ procs' = [procs EXCEPT ![p].delB = gone, ![p].delCb = cascade,
                                           ![p].targets = {}, ![p].pc = "create"]
                 /\ UNCHANGED <<store, now, response>>

\* budget.create with its nested category budgets (Budget_userId_month_key)
CreateStep(p) ==
  LET req == procs[p].req
      cbs == CHOOSE cbs \in req.categoryBudgetsField : TRUE
      standing == { b \in budgets : SameKey(b, req.userId, req.month)
                                    /\ b.id \notin procs[p].delB }
  IN  /\ procs[p].pc = "create"
      /\ \A b \in standing : \A q \in Others(p) : b.id \notin procs[q].delB
      /\ \A q \in Others(p) : \A b \in procs[q].insB : ~SameKey(b, req.userId, req.month)
      /\ IF standing # {}
         THEN AbortTx(p)
         ELSE /\ procs' = [procs EXCEPT
                   ![p].insB = { [id |-> nextBudgetId, userId |-> req.userId,
                                  month |-> req.month,
                                  totalBudget |-> CHOOSE t \in req.totalBudget : TRUE] },
                   ![p].insCb = { [budgetId |-> nextBudgetId, categoryId |-> cb.categoryId,
                                   budgetAmount |-> cb.budgetAmount] : cb \in Range(cbs) },
                   ![p].pc = "commit"]
              /\ nextBudgetId' = nextBudgetId + 1
              /\ UNCHANGED <<categories, transactions, budgets, categoryBudgets,
                             sequences, now, response>>

\* budget.update({ where: { userId_month }, data: updateData }): with no totalBudget
\* in the body updateData is empty and the row is read, not written
UpdateStep(p) ==
  LET req == procs[p].req
      found == { b \in VisibleBudgets(p) : SameKey(b, req.userId, req.month) }
  IN  /\ procs[p].pc = "update"
      /\ req.totalBudget # {} => \A b \in found : ~BudgetLockedByOther(p, b.id)
      /\ IF found = {}
         THEN AbortTx(p)
         ELSE /\ procs' = [procs EXCEPT
                   ![p].budgetId = { b.id : b \in found },
                   ![p].upd = { [id |-> b.id, totalBudget |-> t] :
                                  b \in found, t \in req.totalBudget },
                   ![p].pc = IF req.categoryBudgetsField = {} THEN "commit"
                             ELSE "deleteCbs"]
              /\ UNCHANGED <<store, now, response>>

\* categoryBudget.deleteMany({ where: { budgetId } }) starts: the rows it will delete
DeleteCbsStart(p) ==
  /\ procs[p].pc = "deleteCbs"
  /\ procs' = [procs EXCEPT
       ![p].cbTargets = { cb \in VisibleCategoryBudgets(p) :
                            cb.budgetId \in procs[p].budgetId },
       ![p].pc = "deleteCbsApply"]
  /\ UNCHANGED <<store, now, response>>

\* ... and deletes those of them that are still there
DeleteCbsApply(p) ==
  /\ procs[p].pc = "deleteCbsApply"
  /\ \A cb \in procs[p].cbTargets : ~CategoryBudgetLockedByOther(p, cb)
  /\ procs' = [procs EXCEPT ![p].delCb = procs[p].cbTargets \cap categoryBudgets,
                            ![p].cbTargets = {}, ![p].pc = "createMany"]
  /\ UNCHANGED <<store, now, response>>

\* categoryBudget.createMany (CategoryBudget_budgetId_fkey,
\* CategoryBudget_budgetId_categoryId_key)
CreateManyStep(p) ==
  LET req == procs[p].req
      cbs == CHOOSE cbs \in req.categoryBudgetsField : TRUE
      rows == { [budgetId |-> id, categoryId |-> cb.categoryId,
                 budgetAmount |-> cb.budgetAmount] :
                  id \in procs[p].budgetId, cb \in Range(cbs) }
      SameCb(x, y) == x.budgetId = y.budgetId /\ x.categoryId = y.categoryId
      standing == { cb \in categoryBudgets \ procs[p].delCb :
                      \E r \in rows : SameCb(cb, r) }
  IN  /\ procs[p].pc = "createMany"
      /\ rows # {} => \A id \in procs[p].budgetId : \A q \in Others(p) : id \notin procs[q].delB
      /\ \A cb \in standing : ~CategoryBudgetLockedByOther(p, cb)
      /\ \A q \in Others(p) : \A cb \in procs[q].insCb : \A r \in rows : ~SameCb(cb, r)
      /\ IF standing # {}
            \/ (rows # {} /\ \E id \in procs[p].budgetId : \A b \in budgets : b.id # id)
         THEN AbortTx(p)
         ELSE /\ procs' = [procs EXCEPT ![p].insCb = rows, ![p].pc = "commit"]
              /\ UNCHANGED <<store, now, response>>

\* the transaction commits and the handler answers 200
CommitTx(p) ==
  /\ procs[p].pc = "commit"
  /\ budgets' = CommittedBudgets(p)
  /\ categoryBudgets' = CommittedCategoryBudgets(p)
  /\ Finish(p, RouteOf(procs[p].req), 200,
            IF procs[p].req.kind = "POST" THEN "Budget created successfully"
            ELSE "Budget updated successfully")
  /\ UNCHANGED <<categories, transactions, nextBudgetId, sequences, now>>

\* the n-th request of handler p carries the amount TagOf(p, n) in all its category
\* budgets, and no other request carries it
TagOf(p, n) == (p - 1) * MaxRequests + n

ConcTotals == {100}

ConcCategoryIds == {1, 2}

\* the lists of a request: each category at most once, every amount the tag
ConcCategoryBudgets(tag) ==
  { cbs \in UNION { [1..n -> [categoryId : ConcCategoryIds, budgetAmount : {tag}]] :
                      n \in 0..MaxCategoryBudgets } :
      \A i \in DOMAIN cbs : \A j \in DOMAIN cbs :
        i < j => cbs[i].categoryId < cbs[j].categoryId }

\* handler 1 serves user 1, the other handlers any user
ConcUsers(p) == IF p = 1 THEN {1} ELSE UserIds

ConcRequests(p, n) ==
  LET lists == ConcCategoryBudgets(TagOf(p, n))
  IN  { [kind |-> "POST", userId |-> u, month |-> ThisMonth, totalBudget |-> {t},
         categoryBudgetsField |-> {cbs}] :
          u \in ConcUsers(p), t \in ConcTotals, cbs \in lists }
      \cup
      { [kind |-> "PUT", userId |-> u, month |-> ThisMonth, totalBudget |-> t,
         categoryBudgetsField |-> f] :
          u \in ConcUsers(p), t \in Optional(ConcTotals), f \in Optional(lists) }
      \cup
      { [kind |-> "DELETE", userId |-> u, month |-> ThisMonth, totalBudget |-> {},
         categoryBudgetsField |-> {}] : u \in ConcUsers(p) }

InitConc ==
  /\ categories = WriteCategories
  /\ transactions = {}
  /\ budgets = {}
  /\ categoryBudgets = {}
  /\ nextBudgetId = 1
  /\ sequences = [Transaction |-> 1, Category |-> 4]
  /\ now = [y |-> 2025, m |-> 9, d |-> 2]
  /\ response = NoResponse
  /\ procs = NoRequests

NextConc ==
  \/ \E p \in Procs : \E req \in ConcRequests(p, procs[p].served + 1) : Issue(p, req)
  \/ \E p \in Procs : DeleteManyStart(p)
  \/ \E p \in Procs : DeleteManyApply(p)
  \/ \E p \in Procs : CreateStep(p)
  \/ \E p \in Procs : UpdateStep(p)
  \/ \E p \in Procs : DeleteCbsStart(p)
  \/ \E p \in Procs : DeleteCbsApply(p)
  \/ \E p \in Procs : CreateManyStep(p)
  \/ \E p \in Procs : CommitTx(p)

SpecConc == InitConc /\ [][NextConc]_vars

(***************************************************************************)
(* SpecCatConc: the category routes of user 1 as concurrent handlers over  *)
(* an empty Category table.  Each awaited query of a handler is one step.  *)
(***************************************************************************)
MaxCatRequests == 3

\* the ten default categories, their names written in ASCII
DEFAULT_CATEGORIES ==
  << [name |-> "Hrana i namirnice", type |-> "expense"],
     [name |-> "Stanovanje (kirija, rezije)", type |-> "expense"],
     [name |-> "Transport", type |-> "expense"],
     [name |-> "Zdravlje", type |-> "expense"],
     [name |-> "Zabava i izlasci", type |-> "expense"],
     [name |-> "Odjeca", type |-> "expense"],
     [name |-> "Ostalo", type |-> "expense"],
     [name |-> "Plata", type |-> "income"],
     [name |-> "Bonus", type |-> "income"],
     [name |-> "Ostali prihodi", type |-> "income"] >>

\* the unique indexes of the Category table: none on (userId, name)
CategoryNameUnique == FALSE

\* a category row of the user other than `id` has the name
NameTaken(userId, name, id) ==
  \E c \in categories : c.userId = userId /\ c.name = name /\ c.id # id

RECURSIVE ServedBy(_)
\* the requests the handlers 1..n have received
ServedBy(n) == IF n = 0 THEN 0 ELSE procs[n].served + ServedBy(n - 1)

CategoryRequest(kind, userId, id, name, type) ==
  [kind |-> kind, userId |-> userId, id |-> id, name |-> name, type |-> type]

\* handler p receives a request and is at `pc` after its first query
Receive(p, req, pc) ==
  procs' = [procs EXCEPT ![p] = [IdleProc(procs[p].served + 1) EXCEPT !.pc = pc, !.req = req]]

\* handler p answers a request it has just received
AnswerAtOnce(p, req, status, message) ==
  /\ procs' = [procs EXCEPT ![p] = IdleProc(procs[p].served + 1)]
  /\ RespondCategory(req.kind, req.userId, req.id, status, message)

FinishCategory(p, status, message) ==
  /\ procs' = [procs EXCEPT ![p] = IdleProc(procs[p].served)]
  /\ RespondCategory(procs[p].req.kind, procs[p].req.userId, procs[p].req.id, status, message)

CanReceive(p) == procs[p].pc = "idle" /\ ServedBy(MaxProcs) < MaxCatRequests

\* POST /categories up to its findFirst
PostCategoryFind(p, userId, name, type) ==
  LET req == CategoryRequest("POST /categories", userId, 0, name, type)
  IN  /\ CanReceive(p)
      /\ IF ~ValidCategoryBody(name, type)
         THEN /\ AnswerAtOnce(p, req, 400, "Validation failed")
              /\ UNCHANGED <<store, now>>
         ELSE IF NameTaken(userId, Trim(name), 0)
         THEN /\ AnswerAtOnce(p, req, 400, "Category with this name already exists")
              /\ UNCHANGED <<store, now>>
         ELSE /\ Receive(p, req, "create")
              /\ UNCHANGED <<store, now, response>>

\* prisma.category.create of POST /categories
PostCategoryCreate(p) ==
  LET req == procs[p].req
  IN  /\ procs[p].pc = "create"
      /\ IF CategoryNameUnique /\ NameTaken(req.userId, Trim(req.name), 0)
         THEN /\ FinishCategory(p, 500, "Internal server error")
              /\ UNCHANGED <<store, now>>
         ELSE /\ categories' = categories \cup
                   { [id |-> sequences.Category, userId |-> req.userId, type |-> req.type,
                      name |-> Trim(req.name)] }
              /\ sequences' = [sequences EXCEPT !.Category = @ + 1]
              /\ FinishCategory(p, 201, "created")
              /\ UNCHANGED <<transactions, budgets, categoryBudgets, nextBudgetId, now>>

\* PUT /categories/:id up to its first findFirst
PutCategoryFind(p, userId, id, name, type) ==
  LET req == CategoryRequest("PUT /categories/:id", userId, id, name, type)
  IN  /\ CanReceive(p)
      /\ UNCHANGED <<store, now>>
      /\ IF ~ValidCategoryBody(name, type)
         THEN AnswerAtOnce(p, req, 400, "Validation failed")
         ELSE IF OwnedCategory(userId, id) = {}
         THEN AnswerAtOnce(p, req, 404, "Category not found")
         ELSE Receive(p, req, "duplicate") /\ UNCHANGED response

\* the second findFirst of PUT /categories/:id
PutCategoryDuplicate(p) ==
  LET req == procs[p].req
  IN  /\ procs[p].pc = "duplicate"
      /\ UNCHANGED <<store, now>>
      /\ IF NameTaken(req.userId, Trim(req.name), req.id)
         THEN FinishCategory(p, 400, "Category with this name already exists")
         ELSE procs' = [procs EXCEPT ![p].pc = "update"] /\ UNCHANGED response

\* prisma.category.update of PUT /categories/:id
PutCategoryUpdate(p) ==
  LET req == procs[p].req
  IN  /\ procs[p].pc = "update"
      /\ UNCHANGED <<transactions, budgets, categoryBudgets, nextBudgetId, sequences, now>>
      /\ IF \/ ~\E c \in categories : c.id = req.id
            \/ CategoryNameUnique /\ NameTaken(req.userId, Trim(req.name), req.id)
         THEN FinishCategory(p, 500, "Internal server error") /\ UNCHANGED categories
         ELSE /\ categories' =
                   { IF c.id = req.id THEN [c EXCEPT !.name = Trim(req.name), !.type = req.type]
                     ELSE c : c \in categories }
              /\ FinishCategory(p, 200, "updated")

\* prisma.category.createMany({ data: DEFAULT_CATEGORIES.map(...) })
CreateDefaultCategories(userId) ==
  /\ categories' = categories \cup
       { [id |-> sequences.Category + i - 1, userId |-> userId,
          type |-> DEFAULT_CATEGORIES[i].type, name |-> DEFAULT_CATEGORIES[i].name] :
           i \in DOMAIN DEFAULT_CATEGORIES }
  /\ sequences' = [sequences EXCEPT !.Category = @ + Len(DEFAULT_CATEGORIES)]

\* createMany fails on a unique index
DefaultNameTaken(userId) ==
  CategoryNameUnique
    /\ \E i \in DOMAIN DEFAULT_CATEGORIES : NameTaken(userId, DEFAULT_CATEGORIES[i].name, 0)

\* GET /categories up to its findMany
GetCategoriesFind(p, userId) ==
  LET req == CategoryRequest("GET /categories", userId, 0, "", "")
  IN  /\ CanReceive(p)
      /\ UNCHANGED <<store, now>>
      /\ IF \E c \in categories : c.userId = userId
         THEN AnswerAtOnce(p, req, 200, "categories")
         ELSE Receive(p, req, "seed") /\ UNCHANGED response

\* the createMany of GET /categories
GetCategoriesSeed(p) ==
  /\ procs[p].pc = "seed"
  /\ IF DefaultNameTaken(procs[p].req.userId)
     THEN /\ FinishCategory(p, 500, "Internal server error")
          /\ UNCHANGED <<store, now>>
     ELSE /\ CreateDefaultCategories(procs[p].req.userId)
          /\ procs' = [procs EXCEPT ![p].pc = "refetch"]
          /\ UNCHANGED <<transactions, budgets, categoryBudgets, nextBudgetId, now, response>>

\* the second findMany of GET /categories
GetCategoriesRefetch(p) ==
  /\ procs[p].pc = "refetch"
  /\ FinishCategory(p, 200, "categories")
  /\ UNCHANGED <<store, now>>

\* POST /categories/seed-default up to its findMany
SeedDefaultFind(p, userId) ==
  LET req == CategoryRequest("POST /categories/seed-default", userId, 0, "", "")
  IN  /\ CanReceive(p)
      /\ UNCHANGED <<store, now>>
      /\ IF \E c \in categories : c.userId = userId
         THEN AnswerAtOnce(p, req, 400, "User already has categories")
         ELSE Receive(p, req, "seedDefault") /\ UNCHANGED response

\* the createMany of POST /categories/seed-default
SeedDefaultCreate(p) ==
  /\ procs[p].pc = "seedDefault"
  /\ IF DefaultNameTaken(procs[p].req.userId)
     THEN /\ FinishCategory(p, 500, "Internal server error")
          /\ UNCHANGED <<store, now>>
     ELSE /\ CreateDefaultCategories(procs[p].req.userId)
          /\ FinishCategory(p, 200, "Default categories created successfully")
          /\ UNCHANGED <<transactions, budgets, categoryBudgets, nextBudgetId, now>>

InitCatConc ==
  /\ categories = {}
  /\ transactions = {}
  /\ budgets = {}
  /\ categoryBudgets = {}
  /\ nextBudgetId = 1
  /\ sequences = [Transaction |-> 1, Category |-> 1]
  /\ now = [y |-> 2025, m |-> 9, d |-> 2]
  /\ response = NoResponse
  /\ procs = NoRequests

NextCatConc ==
  \/ \E p \in Procs : \E name \in ReqNames : PostCategoryFind(p, 1, name, "expense")
  \/ \E p \in Procs : PostCategoryCreate(p)
  \/ \E p \in Procs : \E id \in {1, 2} : \E name \in ReqNames :
       PutCategoryFind(p, 1, id, name, "expense")
  \/ \E p \in Procs : PutCategoryDuplicate(p)
  \/ \E p \in Procs : PutCategoryUpdate(p)
  \/ \E p \in Procs : GetCategoriesFind(p, 1)
  \/ \E p \in Procs : GetCategoriesSeed(p)
  \/ \E p \in Procs : GetCategoriesRefetch(p)
  \/ \E p \in Procs : SeedDefaultFind(p, 1)
  \/ \E p \in Procs : SeedDefaultCreate(p)

SpecCatConc == InitCatConc /\ [][NextCatConc]_vars

(***************************************************************************)
(* SpecDelConc: DELETE /categories/:id, POST /transactions and             *)
(* PUT /transactions/:id as concurrent handlers.  Categories 1 and 2 are   *)
(* expense categories of user 1; category 2 has transaction 1.             *)
(***************************************************************************)
\* the delete rules the foreign key Transaction.categoryId -> Category.id may have
TransactionCategoryRules == {"Restrict", "Cascade"}

\* (variant: the transactions of the category are not counted)
CountNoTransactions(id) == 0

\* include: { _count: { select: { transactions: true } } }
CountTransactions(id) == Cardinality({ tr \in transactions : tr.categoryId = id })

TransactionRequest(kind, userId, id, amount, date, type, categoryId) ==
  [kind |-> kind, userId |-> userId, id |-> id, amount |-> amount, date |-> date,
   type |-> type, categoryId |-> categoryId]

\* DELETE /categories/:id up to its findFirst
DeleteCategoryFind(p, userId, id) ==
  LET req == CategoryRequest("DELETE /categories/:id", userId, id, "", "")
  IN  /\ CanReceive(p)
      /\ UNCHANGED <<store, now>>
      /\ IF OwnedCategory(userId, id) = {}
         THEN AnswerAtOnce(p, req, 404, "Category not found")
         ELSE IF CountTransactions(id) > 0
         THEN AnswerAtOnce(p, req, 400, "Cannot delete category with existing transactions")
         ELSE Receive(p, req, "delete") /\ UNCHANGED response

\* prisma.category.delete({ where: { id } })
DeleteCategoryDelete(p, rule) ==
  LET id == procs[p].req.id
      referenced == \E tr \in transactions : tr.categoryId = id
  IN  /\ procs[p].pc = "delete"
      /\ UNCHANGED <<budgets, nextBudgetId, sequences, now>>
      /\ IF (~\E c \in categories : c.id = id) \/ (referenced /\ rule = "Restrict")
         THEN /\ FinishCategory(p, 500, "Internal server error")
              /\ UNCHANGED <<categories, categoryBudgets, transactions>>
         ELSE /\ categories' = { c \in categories : c.id # id }
              /\ categoryBudgets' = { cb \in categoryBudgets : cb.categoryId # id }
              /\ transactions' = { tr \in transactions : tr.categoryId # id }
              /\ FinishCategory(p, 200, "Category deleted successfully")

\* POST /transactions up to its findFirst and type check
PostTransactionFind(p, userId, amount, date, type, categoryId) ==
  LET req == TransactionRequest("POST /transactions", userId, 0, amount, date, type, categoryId)
  IN  /\ CanReceive(p)
      /\ UNCHANGED <<store, now>>
      /\ IF ~ValidTransactionBody(amount, type, categoryId)
         THEN AnswerAtOnce(p, req, 400, "Validation failed")
         ELSE IF OwnedCategory(userId, categoryId) = {}
         THEN AnswerAtOnce(p, req, 404, "Category not found or does not belong to user")
         ELSE IF TypeMismatch(CHOOSE c \in OwnedCategory(userId, categoryId) : TRUE, type)
         THEN AnswerAtOnce(p, req, 400, "Category type does not match transaction type")
         ELSE Receive(p, req, "createTransaction") /\ UNCHANGED response

\* prisma.transaction.create: the foreign key needs the category row
PostTransactionCreate(p) ==
  LET req == procs[p].req
  IN  /\ procs[p].pc = "createTransaction"
      /\ UNCHANGED <<categories, budgets, categoryBudgets, nextBudgetId, now>>
      /\ IF ~\E c \in categories : c.id = req.categoryId
         THEN /\ FinishCategory(p, 500, "Internal server error")
              /\ UNCHANGED <<transactions, sequences>>
         ELSE /\ transactions' = transactions \cup
                   { [id |-> sequences.Transaction, userId |-> req.userId, type |-> req.type,
                      categoryId |-> req.categoryId, amount |-> req.amount,
                      date |-> req.date] }
              /\ sequences' = [sequences EXCEPT !.Transaction = @ + 1]
              /\ FinishCategory(p, 201, "created")

\* PUT /transactions/:id up to its first findFirst
PutTransactionFind(p, userId, id, amount, date, type, categoryId) ==
  LET req == TransactionRequest("PUT /transactions/:id", userId, id, amount, date, type,
                                categoryId)
  IN  /\ CanReceive(p)
      /\ UNCHANGED <<store, now>>
      /\ IF ~ValidTransactionBody(amount, type, categoryId)
         THEN AnswerAtOnce(p, req, 400, "Validation failed")
         ELSE IF OwnedTransaction(userId, id) = {}
         THEN AnswerAtOnce(p, req, 404, "Transaction not found")
         ELSE Receive(p, req, "findCategory") /\ UNCHANGED response

\* the category findFirst and the type check of PUT /transactions/:id
PutTransactionFindCategory(p) ==
  LET req == procs[p].req
  IN  /\ procs[p].pc = "findCategory"
      /\ UNCHANGED <<store, now>>
      /\ IF OwnedCategory(req.userId, req.categoryId) = {}
         THEN FinishCategory(p, 404, "Category not found or does not belong to user")
         ELSE IF TypeMismatch(CHOOSE c \in OwnedCategory(req.userId, req.categoryId) : TRUE,
                              req.type)
         THEN FinishCategory(p, 400, "Category type does not match transaction type")
         ELSE procs' = [procs EXCEPT ![p].pc = "updateTransaction"] /\ UNCHANGED response

\* prisma.transaction.update({ where: { id } }): the row and the category must exist
PutTransactionUpdate(p) ==
  LET req == procs[p].req
  IN  /\ procs[p].pc = "updateTransaction"
      /\ UNCHANGED <<categories, budgets, categoryBudgets, nextBudgetId, sequences, now>>
      /\ IF \/ ~\E tr \in transactions : tr.id = req.id
            \/ ~\E c \in categories : c.id = req.categoryId
         THEN FinishCategory(p, 500, "Internal server error") /\ UNCHANGED transactions
         ELSE /\ transactions' =
                   { IF tr.id = req.id
                     THEN [tr EXCEPT !.amount = req.amount, !.date = req.date,
                                     !.type = req.type, !.categoryId = req.categoryId]
                     ELSE tr : tr \in transactions }
              /\ FinishCategory(p, 200, "updated")

InitDelConc ==
  /\ categories =
       { [id |-> 1, userId |-> 1, type |-> "expense", name |-> "Hrana i namirnice"],
         [id |-> 2, userId |-> 1, type |-> "expense", name |-> "Transport"] }
  /\ transactions =
       { [id |-> 1, userId |-> 1, type |-> "expense", categoryId |-> 2, amount |-> 500,
          date |-> Date(2025, 9, 1, 1)] }
  /\ budgets = {}
  /\ categoryBudgets = {}
  /\ nextBudgetId = 1
  /\ sequences = [Transaction |-> 2, Category |-> 3]
  /\ now = [y |-> 2025, m |-> 9, d |-> 2]
  /\ response = NoResponse
  /\ procs = NoRequests

NextDelConc ==
  \/ \E p \in Procs : \E u \in UserIds : \E id \in {1, 2} : DeleteCategoryFind(p, u, id)
  \/ \E p \in Procs : \E rule \in TransactionCategoryRules : DeleteCategoryDelete(p, rule)
  \/ \E p \in Procs : \E u \in UserIds : \E amount \in {0, 5} : \E c \in {1, 2} :
       PostTransactionFind(p, u, amount, Date(2025, 9, 2, 1), "expense", c)
  \/ \E p \in Procs : PostTransactionCreate(p)
  \/ \E p \in Procs : \E u \in UserIds : \E c \in {1, 2} :
       PutTransactionFind(p, u, 1, 5, Date(2025, 9, 2, 1), "expense", c)
  \/ \E p \in Procs : PutTransactionFindCategory(p)
  \/ \E p \in Procs : PutTransactionUpdate(p)

SpecDelConc == InitDelConc /\ [][NextDelConc]_vars

(***************************************************************************)
(* Vocabulary of the properties, taken from the stored rows directly.      *)
(***************************************************************************)
\* the expenses of a user whose calendar date lies in the month, at any time of day
ExpensesInMonth(userId, month) ==
  { tr \in transactions :
      /\ tr.userId = userId /\ tr.type = "expense"
      /\ tr.date.y = month.y /\ tr.date.m = month.mm }

\* ... and those of them dated before day d, on day d
ExpensesBefore(userId, month, d) ==
  { tr \in ExpensesInMonth(userId, month) : tr.date.d < d }

BudgetOf(userId, month) == CHOOSE b \in budgets : b.userId = userId /\ b.month = month

RECURSIVE SumTo(_, _)
SumTo(f, n) == IF n = 0 THEN 0 ELSE f[n] + SumTo(f, n - 1)

IsDaily == response.route = "daily-budget" /\ response.body.hasBudget

IsOverview == response.route = "budget-overview" /\ response.body.hasBudget

IsHistory == response.route = "daily-budget-history" /\ Len(response.body.dailyData) > 0

\* the status the thresholds give for spending `spent` against a positive limit
ThresholdStatus(spent, limit) ==
  IF Ge(FromInt(spent), limit) THEN "over"
  ELSE IF Ge(FromInt(spent), Times(limit, 4, 5)) THEN "warning"
  ELSE "good"

(***************************************************************************)
(* C1: daily-budget reports remainingBudget = totalBudget minus the        *)
(* month's expenses dated strictly before today, and adjustedDailyLimit =  *)
(* max(0, remainingBudget / (daysInMonth - today + 1)).                    *)
(***************************************************************************)
C1_RemainingBeforeToday ==
  IsDaily =>
    LET b == response.body
        before == SumAmount(ExpensesBefore(response.userId, MonthString(now), now.d))
        remaining == b.totalBudget - before
    IN  /\ b.remainingBudget = remaining
        /\ Eq(b.adjustedDailyLimit,
              Max0(Div(FromInt(remaining), b.daysInMonth - now.d + 1)))

(***************************************************************************)
(* C2: against a positive daily limit L the status is 'over' from exactly  *)
(* 100% of L, 'warning' from exactly 80% of L and 'good' below 80%, in     *)
(* daily-budget (whole budget and categories) and in every history cell.   *)
(***************************************************************************)
C2_StatusBoundaries ==
  /\ IsDaily =>
       LET b == response.body
       IN  /\ Gt(b.adjustedDailyLimit, FromInt(0)) =>
                b.overallStatus = ThresholdStatus(b.todaySpent, b.adjustedDailyLimit)
           /\ \A c \in b.categoryDailyBudgets :
                Gt(c.adjustedDailyLimit, FromInt(0)) =>
                  c.status = ThresholdStatus(c.todaySpent, c.adjustedDailyLimit)
  /\ IsHistory =>
       \A d \in DOMAIN response.body.dailyData :
         LET cell == response.body.dailyData[d]
         IN  Gt(cell.dailyLimit, FromInt(0)) =>
               cell.status = ThresholdStatus(cell.actualSpent, cell.dailyLimit)

(***************************************************************************)
(* C3: in the history the actualSpent of the day cells add up to           *)
(* totalSpent, and their transactionCount to the number of the expenses    *)
(* counted in totalSpent.                                                  *)
(***************************************************************************)
CountedInTotal(userId, month) ==
  FindExpenses(userId, MonthStartOf(month.y, month.mm - 1), MonthEndOf(month.y, month.mm - 1))

C3_DayCellsAddUp ==
  IsHistory =>
    LET b == response.body
        n == Len(b.dailyData)
        counted == CountedInTotal(response.userId, response.month)
    IN  /\ b.totalSpent = SumAmount(counted)
        /\ SumTo([d \in 1..n |-> b.dailyData[d].actualSpent], n) = b.totalSpent
        /\ SumTo([d \in 1..n |-> b.dailyData[d].transactionCount], n) = Cardinality(counted)

C3_Witness ==
  /\ IsHistory
  /\ response.body.totalSpent = 900
  /\ response.body.dailyData[1].transactionCount = 1
  /\ response.body.dailyData[30].transactionCount = 1
  /\ Cardinality(ExpensesInMonth(1, ThisMonth)) = 2

(***************************************************************************)
(* C4: in every history cell d, dailyLimit * (daysInMonth - d + 1) =       *)
(* totalBudget minus the expenses of days 1..d-1; with totalBudget 1000    *)
(* and one expense of 500 on day 1 of a 30-day month, day 2 has the limit  *)
(* 500 / 29.                                                               *)
(***************************************************************************)
C4_LimitTimesRemainingDays ==
  IsHistory =>
    LET b == response.body
        n == Len(b.dailyData)
    IN  \A d \in 1..n :
          Eq(Times(b.dailyData[d].dailyLimit, n - d + 1, 1),
             FromInt(b.totalBudget
                     - SumAmount(ExpensesBefore(response.userId, response.month, d))))

C4_Witness ==
  /\ IsHistory
  /\ response.body.totalBudget = 1000
  /\ Len(response.body.dailyData) = 30
  /\ \E tr \in transactions :
       /\ transactions = {tr}
       /\ tr.userId = 1 /\ tr.type = "expense" /\ tr.amount = 500
       /\ tr.date.m = 9 /\ tr.date.d = 1
  /\ Eq(response.body.dailyData[2].dailyLimit, Num(500, 29))

C6_CategoryRebalanced ==
  IsHistory =>
    LET b == response.body
        n == Len(b.dailyData)
        budget == BudgetOf(response.userId, response.month)
    IN  \A d \in 1..n : \A c \in b.dailyData[d].categoryBreakdown :
          LET cb == CHOOSE cb \in CategoryBudgetsOf(budget) : cb.categoryId = c.categoryId
              before == { tr \in ExpensesBefore(response.userId, response.month, d) :
                            tr.categoryId = c.categoryId }
              limit == Div(FromInt(cb.budgetAmount - SumAmount(before)), n - d + 1)
          IN  /\ Eq(c.dailyLimit, limit)
              /\ Eq(c.remaining, Minus(limit, FromInt(c.spent)))
              /\ c.status = CategoryDailyStatus(c.spent, limit)

(***************************************************************************)
(* C7: with totalBudget = 0 or a category budgetAmount = 0, every          *)
(* percentage and allowance of budget-overview, daily-budget and           *)
(* daily-budget-history is a finite number: none is the result of a        *)
(* division by zero.                                                       *)
(***************************************************************************)
C7_NoDivisionByZero ==
  /\ IsOverview =>
       /\ IsFinite(response.body.budgetUsedPercentage)
       /\ \A c \in response.body.categoryBudgets : IsFinite(c.percentage)
  /\ IsDaily =>
       LET b == response.body
       IN  /\ IsFinite(b.originalDailyLimit) /\ IsFinite(b.adjustedDailyLimit)
           /\ IsFinite(b.todayRemaining)
           /\ \A c \in b.categoryDailyBudgets :
                /\ IsFinite(c.originalDailyLimit) /\ IsFinite(c.adjustedDailyLimit)
                /\ IsFinite(c.todayRemaining)
  /\ IsHistory =>
       LET b == response.body
       IN  /\ IsFinite(b.averageDailySpent) /\ IsFinite(b.originalDailyLimit)
           /\ \A d \in DOMAIN b.dailyData :
                /\ IsFinite(b.dailyData[d].dailyLimit)
                /\ IsFinite(b.dailyData[d].remaining)
                /\ \A c \in b.dailyData[d].categoryBreakdown :
                     IsFinite(c.dailyLimit) /\ IsFinite(c.remaining)

(***************************************************************************)
(* C8: every stored budget has the sum of its category budgets' amounts    *)
(* less than or equal to its totalBudget, after any sequence of budget     *)
(* writes and category deletions.                                          *)
(***************************************************************************)
RECURSIVE SumOfBudgetAmounts(_)
SumOfBudgetAmounts(S) ==
  IF S = {} THEN 0
  ELSE LET cb == CHOOSE cb \in S : TRUE IN cb.budgetAmount + SumOfBudgetAmounts(S \ {cb})

C8_CategorySumWithinTotal ==
  \A b \in budgets : SumOfBudgetAmounts(CategoryBudgetsOf(b)) <= b.totalBudget

(***************************************************************************)
(* C9: a POST /budgets whose amounts sum to more than totalBudget, or that *)
(* names a category that does not exist or is another user's, answers 400  *)
(* and leaves the budgets and category budgets as they were, in whatever   *)
(* state the request arrives.                                              *)
(***************************************************************************)
RequestedSum(cbs) == SumTo([i \in DOMAIN cbs |-> cbs[i].budgetAmount], Len(cbs))

NamesForeignCategory(userId, cbs) ==
  \E i \in DOMAIN cbs :
    ~\E c \in categories : c.id = cbs[i].categoryId /\ c.userId = userId

C9_BadPostRejected ==
  \A u \in BudgetUsers : \A month \in ReqMonths : \A total \in ReqTotals :
    \A cbs \in ReqCategoryBudgets :
      (RequestedSum(cbs) > total \/ NamesForeignCategory(u, cbs)) =>
        \A failAt \in PostFailPoints :
          \A result \in {PostBudgetResult(u, month, total, cbs, failAt)} :
            /\ result.status = 400
            /\ result.rows.budgets = budgets
            /\ result.rows.categoryBudgets = categoryBudgets

C9_Witness ==
  /\ response.route = "POST /budgets"
  /\ response.status = 400
  /\ response.message = "Sum of category budgets cannot exceed total budget"
  /\ \E b \in budgets :
       /\ b.userId = response.userId /\ b.month = response.month
       /\ CategoryBudgetsOf(b) # {}

(***************************************************************************)
(* C10: a POST /budgets or PUT /budgets/:month of which a step fails       *)
(* leaves the budgets and all category budgets identical to the state      *)
(* before the request.                                                     *)
(***************************************************************************)
C10_FailedWriteChangesNothing ==
  [][(response'.route \in {"POST /budgets", "PUT /budgets/:month"}
      /\ response'.status = 500)
     => budgets' = budgets /\ categoryBudgets' = categoryBudgets]_vars

C10_Witness ==
  /\ response.route = "POST /budgets"
  /\ response.status = 500
  /\ \E b \in budgets :
       /\ b.userId = response.userId /\ b.month = response.month
       /\ CategoryBudgetsOf(b) # {}

C10_WitnessPut ==
  /\ response.route = "PUT /budgets/:month"
  /\ response.status = 500
  /\ \E b \in budgets : CategoryBudgetsOf(b) # {}

(***************************************************************************)
(* C11: under any interleaving of concurrent POST, PUT and DELETE budget   *)
(* requests there is at most one stored budget per (user, month), and the  *)
(* category budgets of a stored budget all come from one request.          *)
(***************************************************************************)
C11_OneBudgetOneRequest ==
  /\ \A b1 \in budgets : \A b2 \in budgets :
       (b1.userId = b2.userId /\ b1.month = b2.month) => b1 = b2
  /\ \A b \in budgets :
       \A cb1 \in CategoryBudgetsOf(b) : \A cb2 \in CategoryBudgetsOf(b) :
         cb1.budgetAmount = cb2.budgetAmount

(***************************************************************************)
(* C12: after any sequence of transaction and category requests, every     *)
(* stored transaction has the type of the category it references.          *)
(***************************************************************************)
C12_TransactionTypeIsCategoryType ==
  \A tr \in transactions : \A c \in categories :
    c.id = tr.categoryId => tr.type = c.type

(***************************************************************************)
(* C13 as written: a POST /transactions or PUT /transactions/:id whose     *)
(* type differs from the type of the referenced category of the caller     *)
(* answers 400 and leaves the stored transactions unchanged.               *)
(***************************************************************************)
TypeDiffers(userId, type, categoryId) ==
  \E c \in OwnedCategory(userId, categoryId) : c.type # type

C13_MismatchAnswers400 ==
  \A u \in UserIds : \A amount \in ReqTxAmounts : \A date \in ReqTxDates :
    \A type \in ReqTypes : \A c \in ReqTxCategoryIds :
      TypeDiffers(u, type, c) =>
        /\ \A result \in {PostTransactionResult(u, amount, date, type, c)} :
             result.status = 400 /\ result.rows = transactions
        /\ \A id \in ReqTxIds :
             \A result \in {PutTransactionResult(u, id, amount, date, type, c)} :
               result.status = 400 /\ result.rows = transactions

(***************************************************************************)
(* C13 amended: such a POST answers 400; such a PUT answers 400, or 404    *)
(* when its body is valid and the transaction does not exist or is not the *)
(* caller's; in every case the stored transactions are unchanged.          *)
(***************************************************************************)
C13_MismatchRejected ==
  \A u \in UserIds : \A amount \in ReqTxAmounts : \A date \in ReqTxDates :
    \A type \in ReqTypes : \A c \in ReqTxCategoryIds :
      TypeDiffers(u, type, c) =>
        /\ \A result \in {PostTransactionResult(u, amount, date, type, c)} :
             result.status = 400 /\ result.rows = transactions
        /\ \A id \in ReqTxIds :
             \A result \in {PutTransactionResult(u, id, amount, date, type, c)} :
               /\ result.rows = transactions
               /\ result.status =
                    IF ValidTransactionBody(amount, type, c) /\ OwnedTransaction(u, id) = {}
                    THEN 404 ELSE 400

C13_Witness ==
  /\ response.route = "PUT /transactions/:id"
  /\ response.status = 400
  /\ response.message = "Category type does not match transaction type"
  /\ OwnedTransaction(response.userId, response.id) # {}

(***************************************************************************)
(* C14: every expense of the user dated in the budget's month, the last    *)
(* day at any time of day included, is counted in the total spent that     *)
(* budget-overview, daily-budget and daily-budget-history report.          *)
(***************************************************************************)
C14_WholeMonthCounted ==
  /\ IsOverview =>
       response.body.totalSpent
         = SumAmount(ExpensesInMonth(response.userId, MonthString(now)))
  /\ IsDaily =>
       response.body.totalSpentThisMonth
         = SumAmount(ExpensesInMonth(response.userId, MonthString(now)))
  /\ IsHistory =>
       response.body.totalSpent
         = SumAmount(ExpensesInMonth(response.userId, response.month))

(***************************************************************************)
(* C15: the history of a month before the current one has only past cells, *)
(* the history of a month after the current one is rejected or has only    *)
(* future cells, and in the history of the current month exactly the days  *)
(* up to and including today are past or today.                            *)
(***************************************************************************)
MonthIndex(y, mm) == y * 12 + mm

C15_CellsClassifiedByMonth ==
  IsHistory =>
    LET cells == response.body.dailyData
        asked == MonthIndex(response.month.y, response.month.mm)
        current == MonthIndex(now.y, now.m)
    IN  /\ asked < current =>
             \A d \in DOMAIN cells : cells[d].isPastDay /\ ~cells[d].isToday
        /\ asked > current =>
             \/ response.status # 200
             \/ \A d \in DOMAIN cells : ~cells[d].isPastDay /\ ~cells[d].isToday
        /\ asked = current =>
             \A d \in DOMAIN cells :
               (cells[d].isPastDay \/ cells[d].isToday) <=> d <= now.d

(***************************************************************************)
(* C16: the history's averageDailySpent is totalSpent divided by the       *)
(* number of cells classified past or today, each counted once, and 0 when *)
(* there is no such cell.                                                  *)
(***************************************************************************)
PastOrTodayCells(dailyData) ==
  { d \in DOMAIN dailyData : dailyData[d].isPastDay \/ dailyData[d].isToday }

C16_AverageOverPastOrToday ==
  response.route = "daily-budget-history" =>
    LET b == response.body
        n == Cardinality(PastOrTodayCells(b.dailyData))
    IN  IF n = 0 THEN Eq(b.averageDailySpent, FromInt(0))
        ELSE Eq(b.averageDailySpent, Div(FromInt(b.totalSpent), n))

C16_Witness ==
  /\ IsHistory
  /\ response.body.totalSpent > 0
  /\ \E d \in DOMAIN response.body.dailyData : response.body.dailyData[d].isToday
  /\ \E d \in DOMAIN response.body.dailyData : ~response.body.dailyData[d].isPastDay
  /\ Cardinality(PastOrTodayCells(response.body.dailyData)) > 1

(***************************************************************************)
(* C17: a history request whose month query is not a month (a month number *)
(* outside 01..12, or not of the shape YYYY-MM) is answered with a         *)
(* validation failure: not with a calendar, not with the no-budget         *)
(* payload, not with an internal error.                                    *)
(***************************************************************************)
ValidMonthQuery(text) ==
  MatchesYYYYMM(text) /\ \A mm \in ParseMonth(text) : mm \in 1..12

C17_InvalidMonthRejected ==
  (/\ response.route = "daily-budget-history"
   /\ \E text \in response.query : ~ValidMonthQuery(text))
    => response.status = 400

(***************************************************************************)
(* C18: when the user has no budget for the month asked about,             *)
(* budget-overview and daily-budget answer hasBudget = false and nothing   *)
(* else, and daily-budget-history answers totalBudget 0, totalSpent 0,     *)
(* averageDailySpent 0, originalDailyLimit 0 and no day cells, all with    *)
(* status 200, whatever transactions are stored.                           *)
(***************************************************************************)
HasBudgetFor(userId, month) ==
  \E b \in budgets : b.userId = userId /\ b.month = month

NoBudgetAsked ==
  /\ response.route \in {"budget-overview", "daily-budget"} =>
       ~HasBudgetFor(response.userId, MonthString(now))
  /\ response.route = "daily-budget-history" =>
       /\ \A text \in response.query : MatchesYYYYMM(text)
       /\ ~HasBudgetFor(response.userId, response.month)

C18_NoBudgetPayload ==
  (response.route # "none" /\ NoBudgetAsked) =>
    /\ response.status = 200
    /\ response.route \in {"budget-overview", "daily-budget"} =>
         response.body = [hasBudget |-> FALSE]
    /\ response.route = "daily-budget-history" =>
         /\ response.body.totalBudget = 0
         /\ response.body.totalSpent = 0
         /\ Eq(response.body.averageDailySpent, FromInt(0))
         /\ Eq(response.body.originalDailyLimit, FromInt(0))
         /\ response.body.dailyData = << >>
         /\ response.body.error = "No budget found for the specified month"

C18_Witness ==
  /\ response.route = "daily-budget-history"
  /\ NoBudgetAsked
  /\ budgets # {}
  /\ ExpensesInMonth(response.userId, response.month) # {}

C18_WitnessOverview ==
  /\ response.route \in {"budget-overview", "daily-budget"}
  /\ NoBudgetAsked
  /\ budgets # {}
  /\ ExpensesInMonth(response.userId, MonthString(now)) # {}

(***************************************************************************)
(* C19: in budget-overview the status of the whole budget (totalBudget >   *)
(* 0) and of each category budget (budgetAmount > 0) is 'good' below 80    *)
(* percent spent, 'warning' from 80 and below 100, 'over' from 100, and a  *)
(* category's remaining is budgetAmount - spent.                           *)
(***************************************************************************)
StatusOfShare(spent, budget) ==
  IF spent * 100 >= 100 * budget THEN "over"
  ELSE IF spent * 100 >= 80 * budget THEN "warning"
  ELSE "good"

C19_OverviewStatuses ==
  IsOverview =>
    LET b == response.body
    IN  /\ b.totalBudget > 0 => b.status = StatusOfShare(b.totalSpent, b.totalBudget)
        /\ \A c \in b.categoryBudgets :
             /\ c.budgetAmount > 0 => c.status = StatusOfShare(c.spent, c.budgetAmount)
             /\ c.remaining = c.budgetAmount - c.spent

C19_Witness ==
  /\ IsOverview
  /\ response.body.totalBudget > 0
  /\ response.body.totalSpent * 100 = 80 * response.body.totalBudget
  /\ \E c \in response.body.categoryBudgets :
       c.budgetAmount > 0 /\ c.spent > c.budgetAmount

C19_WitnessHundred ==
  /\ IsOverview
  /\ response.body.totalBudget > 0
  /\ response.body.totalSpent = response.body.totalBudget
  /\ \E c \in response.body.categoryBudgets :
       c.budgetAmount > 0 /\ c.spent = c.budgetAmount

(***************************************************************************)
(* C20: in every daily-budget response, for the whole budget and for each  *)
(* category, adjustedDailyLimit is at least 0 and todayRemaining is        *)
(* max(0, adjusted limit - todaySpent), so at least 0, also when the       *)
(* month's spending exceeds the budget.                                    *)
(***************************************************************************)
ClampedAllowance(r) ==
  /\ Ge(r.adjustedDailyLimit, FromInt(0))
  /\ Ge(r.todayRemaining, FromInt(0))
  /\ IF Gt(r.adjustedDailyLimit, FromInt(r.todaySpent))
     THEN Eq(r.todayRemaining, Minus(r.adjustedDailyLimit, FromInt(r.todaySpent)))
     ELSE Eq(r.todayRemaining, FromInt(0))

C20_AllowanceNeverNegative ==
  IsDaily =>
    /\ ClampedAllowance(response.body)
    /\ \A c \in response.body.categoryDailyBudgets : ClampedAllowance(c)

C20_Witness ==
  /\ IsDaily
  /\ response.body.remainingBudget < 0
  /\ response.body.todaySpent > 0
  /\ \E c \in response.body.categoryDailyBudgets : c.remainingBudget < 0

(***************************************************************************)
(* C21: a category budget of amount 0 has the reported daily limit 0, and  *)
(* any positive spending on the category on the day gives the category     *)
(* the status 'over', in daily-budget and in every history day cell.       *)
(***************************************************************************)
ZeroBudgetCategories(userId, month) ==
  { cb.categoryId : cb \in { cb \in categoryBudgets :
      cb.budgetAmount = 0 /\ \E b \in budgets :
        b.id = cb.budgetId /\ b.userId = userId /\ b.month = month } }

\* what the user spent on a category on day d of a month
SpentOnDay(userId, month, d, categoryId) ==
  SumAmount({ tr \in ExpensesInMonth(userId, month) :
                tr.date.d = d /\ tr.categoryId = categoryId })

C21_ZeroBudgetCategoryOver ==
  /\ IsDaily =>
       \A c \in response.body.categoryDailyBudgets :
         c.categoryId \in ZeroBudgetCategories(response.userId, MonthString(now)) =>
           /\ Eq(c.adjustedDailyLimit, FromInt(0))
           /\ SpentOnDay(response.userId, MonthString(now), now.d, c.categoryId) > 0
                => c.status = "over"
  /\ IsHistory =>
       \A d \in DOMAIN response.body.dailyData :
         \A id \in ZeroBudgetCategories(response.userId, response.month) :
           /\ \A c \in response.body.dailyData[d].categoryBreakdown :
                c.categoryId = id => Eq(c.dailyLimit, FromInt(0))
           /\ SpentOnDay(response.userId, response.month, d, id) > 0 =>
                \E c \in response.body.dailyData[d].categoryBreakdown :
                  c.categoryId = id /\ c.status = "over"

(***************************************************************************)
(* C22 as written: a successful PUT /budgets/:month with only totalBudget  *)
(* leaves the budget's category budgets unchanged; one with only           *)
(* categoryBudgets leaves totalBudget unchanged and stores exactly the     *)
(* supplied list; both leave the budgets of other months and users         *)
(* unchanged; and a PUT on a (user, month) without a budget answers 404    *)
(* and changes nothing.                                                    *)
(***************************************************************************)
BudgetIn(rows, userId, month) ==
  CHOOSE b \in rows.budgets : b.userId = userId /\ b.month = month

CategoryBudgetsIn(rows, budgetId) ==
  { cb \in rows.categoryBudgets : cb.budgetId = budgetId }

Supplied(budgetId, cbs) ==
  { [budgetId |-> budgetId, categoryId |-> cbs[i].categoryId,
     budgetAmount |-> cbs[i].budgetAmount] : i \in DOMAIN cbs }

\* a successful PUT changed what its fields say of its own budget, and nothing else
PutFrame(userId, month, totalBudget, categoryBudgetsField, rows) ==
  \A before \in {BudgetIn(Rows, userId, month)} :
    /\ { b \in rows.budgets : b.id # before.id } = { b \in budgets : b.id # before.id }
    /\ { cb \in rows.categoryBudgets : cb.budgetId # before.id }
         = { cb \in categoryBudgets : cb.budgetId # before.id }
    /\ \E after \in rows.budgets :
         /\ after.id = before.id /\ after.userId = userId /\ after.month = month
         /\ totalBudget = {} => after.totalBudget = before.totalBudget
         /\ \A total \in totalBudget : after.totalBudget = total
    /\ categoryBudgetsField = {} =>
         CategoryBudgetsIn(rows, before.id) = CategoryBudgetsIn(Rows, before.id)
    /\ \A cbs \in categoryBudgetsField :
         CategoryBudgetsIn(rows, before.id) = Supplied(before.id, cbs)

WellFormedPut(totalBudget, categoryBudgetsField) ==
  /\ \A total \in totalBudget : total >= 0
  /\ \A cbs \in categoryBudgetsField :
       \A i \in DOMAIN cbs : cbs[i].categoryId >= 1 /\ cbs[i].budgetAmount >= 0

C22_PutFrameOr404 ==
  \A u \in UserIds : \A month \in PutOnceMonths : \A total \in Optional(ReqTotals) :
    \A cbs \in Optional(ReqCategoryBudgets) : \A failAt \in PutFailPoints :
      \A r \in {PutBudgetResult(u, month, total, cbs, failAt)} :
        /\ ~HasBudgetFor(u, month) => r.status = 404 /\ r.rows = Rows
        /\ r.status = 200 => PutFrame(u, month, total, cbs, r.rows)

(***************************************************************************)
(* C22 amended: as written, except that a PUT on a (user, month) without a *)
(* budget answers 404 when its body passes validation and 400 when it      *)
(* does not, changing nothing in either case.                              *)
(***************************************************************************)
C22_PutFrameOrRejected ==
  \A u \in UserIds : \A month \in PutOnceMonths : \A total \in Optional(ReqTotals) :
    \A cbs \in Optional(ReqCategoryBudgets) : \A failAt \in PutFailPoints :
      \A r \in {PutBudgetResult(u, month, total, cbs, failAt)} :
        /\ ~HasBudgetFor(u, month) =>
             /\ r.rows = Rows
             /\ r.status = IF WellFormedPut(total, cbs) THEN 404 ELSE 400
        /\ r.status = 200 => PutFrame(u, month, total, cbs, r.rows)

C22_Witness ==
  /\ response.route = "PUT /budgets/:month"
  /\ response.status = 200
  /\ response.userId = 1 /\ response.month = ThisMonth
  /\ Cardinality(budgets) = 3
  /\ CategoryBudgetsIn(Rows, 1) = { [budgetId |-> 1, categoryId |-> 2, budgetAmount |-> 2] }
  /\ CategoryBudgetsIn(Rows, 2) # {} /\ CategoryBudgetsIn(Rows, 3) # {}

(***************************************************************************)
(* C23, the part of it that is a property of one behaviour: a              *)
(* daily-budget-history request leaves the stored budgets, category        *)
(* budgets and transactions unchanged.  (That two calls on the same store  *)
(* and date answer alike relates two behaviours; the answer is a function  *)
(* of the store, the date and the request here.)                           *)
(***************************************************************************)
C23_HistoryWritesNothing ==
  [][response'.route = "daily-budget-history" =>
       /\ budgets' = budgets
       /\ categoryBudgets' = categoryBudgets
       /\ transactions' = transactions]_vars

(***************************************************************************)
(* C24 as written: a request of one user never changes a transaction,      *)
(* category or budget of another user, an attempt on a transaction or      *)
(* category id of another user answers 404 and changes nothing, and the    *)
(* rows that budget-overview, daily-budget and daily-budget-history read   *)
(* for a user do not change with what another user stores.                 *)
(***************************************************************************)
\* the rows of a user
OwnedRows(userId) ==
  [transactions |-> { tr \in transactions : tr.userId = userId },
   categories |-> { c \in categories : c.userId = userId },
   budgets |-> { b \in budgets : b.userId = userId },
   categoryBudgets |->
     { cb \in categoryBudgets :
         \E b \in budgets : b.id = cb.budgetId /\ b.userId = userId }]

\* what the queries of the three dashboard routes return for a user: the
\* budget of the month with its category budgets, the expenses of the month
\* and the expenses of today; the routes compute their results from these
\* rows and the clock alone
DashboardQueries(userId) ==
  [budget |-> FindBudget(userId, MonthString(now)),
   categoryBudgets |->
     UNION { CategoryBudgetsOf(b) : b \in FindBudget(userId, MonthString(now)) },
   monthlyTransactions |->
     FindExpenses(userId, MonthStartOf(now.y, now.m - 1), MonthEndOf(now.y, now.m - 1)),
   todayTransactions |->
     FindExpenses(userId, DayStartOf(now.y, now.m - 1, now.d),
                  DayEndOf(now.y, now.m - 1, now.d))]

\* the step is a request on an id of a row that another user owns
OnForeignId ==
  \/ /\ response'.route \in {"PUT /transactions/:id", "DELETE /transactions/:id"}
     /\ \E tr \in transactions : tr.id = response'.id /\ tr.userId # response'.userId
  \/ /\ response'.route \in {"PUT /categories/:id", "DELETE /categories/:id"}
     /\ \E c \in categories : c.id = response'.id /\ c.userId # response'.userId

OthersUntouched ==
  \A a \in UserIds \ {response'.userId} :
    /\ OwnedRows(a)' = OwnedRows(a)
    /\ DashboardQueries(a)' = DashboardQueries(a)

C24_IsolatedAnd404 ==
  [][response'.route # "none" =>
       /\ OthersUntouched
       /\ OnForeignId => response'.status = 404 /\ store' = store]_vars

(***************************************************************************)
(* C24 amended: as written, except that an attempt on a transaction or     *)
(* category id of another user answers 404, or 400 when its body fails     *)
(* validation, and changes nothing.                                        *)
(***************************************************************************)
C24_IsolatedAndRejected ==
  [][response'.route # "none" =>
       /\ OthersUntouched
       /\ OnForeignId =>
            /\ store' = store
            /\ \/ response'.status = 404
               \/ response'.status = 400 /\ response'.message = "Validation failed"]_vars

C24_Witness ==
  /\ response.route = "PUT /transactions/:id"
  /\ response.status = 404
  /\ \E tr \in transactions : tr.id = response.id /\ tr.userId # response.userId

C24_WitnessWrite ==
  /\ response.route = "POST /transactions"
  /\ response.status = 201
  /\ response.userId = 2
  /\ BudgetOverview(1).hasBudget
  /\ BudgetOverview(1).totalSpent > 0
  /\ BudgetOverview(2).hasBudget

(***************************************************************************)
(* C25: in every history answer and for every day d before the last, the   *)
(* limit of day d + 1 is at least the limit of day d exactly when the      *)
(* spending reported for day d is at most the limit of day d, and the two  *)
(* limits are equal exactly when that spending equals the limit; when      *)
(* every day's spending equals its limit, every limit is                   *)
(* totalBudget / daysInMonth.                                              *)
(***************************************************************************)
C25_SelfCorrection ==
  IsHistory =>
    LET b == response.body
        n == Len(b.dailyData)
    IN  /\ \A d \in 1..(n - 1) :
             /\ Ge(b.dailyData[d + 1].dailyLimit, b.dailyData[d].dailyLimit)
                  <=> Ge(b.dailyData[d].dailyLimit, FromInt(b.dailyData[d].actualSpent))
             /\ Eq(b.dailyData[d + 1].dailyLimit, b.dailyData[d].dailyLimit)
                  <=> Eq(FromInt(b.dailyData[d].actualSpent), b.dailyData[d].dailyLimit)
        /\ (\A d \in 1..n : Eq(FromInt(b.dailyData[d].actualSpent), b.dailyData[d].dailyLimit))
             => \A d \in 1..n : Eq(b.dailyData[d].dailyLimit, Div(FromInt(b.totalBudget), n))

\* day 1 is overspent and the limit falls, day 2 is underspent and it rises
C25_Witness ==
  /\ IsHistory
  /\ response.body.totalBudget = 1000
  /\ LET cells == response.body.dailyData
     IN  /\ cells[1].actualSpent = 500
         /\ Gt(cells[1].dailyLimit, cells[2].dailyLimit)
         /\ cells[2].actualSpent = 0
         /\ Gt(cells[3].dailyLimit, cells[2].dailyLimit)

(***************************************************************************)
(* C26: under every interleaving of the category requests of one user, no  *)
(* two categories of the user have the same name, and no default category  *)
(* is stored twice.                                                        *)
(***************************************************************************)
C26_NoDuplicateNames ==
  /\ \A c1 \in categories : \A c2 \in categories :
       c1.userId = c2.userId /\ c1.name = c2.name => c1.id = c2.id
  /\ \A i \in DOMAIN DEFAULT_CATEGORIES : \A u \in UserIds :
       Cardinality({ c \in categories :
                       c.userId = u /\ c.name = DEFAULT_CATEGORIES[i].name
                       /\ c.type = DEFAULT_CATEGORIES[i].type }) <= 1

(***************************************************************************)
(* C27: a DELETE /categories/:id whose lookup finds the category with at   *)
(* least one transaction answers 400 and changes no row; and in every      *)
(* state reached by interleaved category deletions and transaction         *)
(* creations and updates, every stored transaction references a stored     *)
(* category of the transaction's user.                                     *)
(***************************************************************************)
\* the step is handler p's lookup of a DELETE /categories/:id on category c
DeleteLooksUp(p, c) ==
  /\ procs[p].pc = "idle"
  /\ procs'[p].served = procs[p].served + 1
  /\ IF procs'[p].pc = "idle"
     THEN /\ response'.route = "DELETE /categories/:id"
          /\ response'.id = c.id /\ response'.userId = c.userId
     ELSE /\ procs'[p].req.kind = "DELETE /categories/:id"
          /\ procs'[p].req.id = c.id /\ procs'[p].req.userId = c.userId

EveryTransactionHasItsCategory ==
  \A tr \in transactions :
    \E c \in categories : c.id = tr.categoryId /\ c.userId = tr.userId

C27_WitnessRejected ==
  /\ response.route = "DELETE /categories/:id"
  /\ response.status = 400
  /\ \E tr \in transactions : tr.categoryId = response.id

(***************************************************************************)
(* C28: when the expenses dated before a day exceed the budget, the status *)
(* of that day is 'over' whatever was spent on it: in every such history   *)
(* cell, in daily-budget's overallStatus and, with the category's expenses *)
(* and budget, in daily-budget's category statuses; and when the limit is  *)
(* exactly 0 and nothing was spent on the day, the status is 'good'.       *)
(***************************************************************************)
\* the expenses of a category dated before day d of the month
CategoryExpensesBefore(userId, month, d, categoryId) ==
  { tr \in ExpensesBefore(userId, month, d) : tr.categoryId = categoryId }

C28_OverOnceExceeded ==
  /\ IsHistory =>
       LET b == response.body
       IN  \A d \in DOMAIN b.dailyData :
             /\ SumAmount(ExpensesBefore(response.userId, response.month, d)) > b.totalBudget
                  => b.dailyData[d].status = "over"
             /\ Eq(b.dailyData[d].dailyLimit, FromInt(0)) /\ b.dailyData[d].actualSpent = 0
                  => b.dailyData[d].status = "good"
  /\ IsDaily =>
       LET b == response.body
       IN  /\ SumAmount(ExpensesBefore(response.userId, MonthString(now), now.d)) > b.totalBudget
                => b.overallStatus = "over"
           /\ b.remainingBudget = 0 /\ b.todaySpent = 0 => b.overallStatus = "good"
           /\ \A c \in b.categoryDailyBudgets :
                /\ SumAmount(CategoryExpensesBefore(response.userId, MonthString(now), now.d,
                                                    c.categoryId)) > c.totalBudget
                     => c.status = "over"
                /\ c.remainingBudget = 0 /\ c.todaySpent = 0 => c.status = "good"

\* a history cell of a day without spending, after the budget was exceeded
C28_Witness ==
  /\ IsHistory
  /\ \E d \in DOMAIN response.body.dailyData :
       /\ SumAmount(ExpensesBefore(response.userId, response.month, d))
            > response.body.totalBudget
       /\ response.body.dailyData[d].actualSpent = 0
       /\ response.body.dailyData[d].status = "over"

\* a category of daily-budget overspent before today, nothing spent today
C28_WitnessCategory ==
  /\ IsDaily
  /\ \E c \in response.body.categoryDailyBudgets :
       /\ c.totalBudget = 500 /\ c.monthlySpent = 1000 /\ c.todaySpent = 0
       /\ c.status = "over"

\* the budget of 1000 was spent exactly before the day: the limit is 0
C28_WitnessZero ==
  /\ IsHistory
  /\ response.body.totalBudget = 1000
  /\ \E d \in DOMAIN response.body.dailyData :
       /\ Eq(response.body.dailyData[d].dailyLimit, FromInt(0))
       /\ response.body.dailyData[d].actualSpent = 0
       /\ response.body.dailyData[d].status = "good"

(***************************************************************************)
(* C29: every stored budget has a month key of a four-digit year and a     *)
(* month number 01..12, and the history answered for a stored budget has   *)
(* the days of that month of that year.                                    *)
(***************************************************************************)
C29_StoredMonthsAreCalendarMonths ==
  /\ \A b \in budgets : b.month.y \in 1000..9999 /\ b.month.mm \in 1..12
  /\ IsHistory =>
       /\ response.month.mm \in 1..12
       /\ Len(response.body.dailyData) = MonthLength(response.month.y, response.month.mm - 1)

(***************************************************************************)
(* C30: in budget-overview, for the whole budget and for each category     *)
(* with budgetAmount > 0, the status is 'good' exactly when the reported   *)
(* rounded percentage is below 80 and 'over' exactly when it is at least   *)
(* 100.                                                                    *)
(***************************************************************************)
AgreesWithReported(status, percentage) ==
  /\ status = "good" <=> Gt(FromInt(80), percentage)
  /\ status = "over" <=> Ge(percentage, FromInt(100))

C30_StatusAgreesWithRounded ==
  IsOverview =>
    /\ AgreesWithReported(response.body.status, response.body.budgetUsedPercentage)
    /\ \A c \in response.body.categoryBudgets :
         c.budgetAmount > 0 => AgreesWithReported(c.status, c.percentage)

====
